---- MODULE Spec2Model ----
(***************************************************************************)
(* Model of the local synchronization engine (internal/sync/sync.go):      *)
(* the Syncer's two job queues and workers, the drain check, the Local     *)
(* Collection Builder (synchronizeCollections), runDiffs and the per-job   *)
(* synchronizeAnime / synchronizeManga.                                    *)
(***************************************************************************)
EXTENDS Integers, Sequences, FiniteSets, TLC

\* ------------------------------------------------------------------ bounds
\* Number of Synchronize calls the environment issues.
MaxSyncCalls == 2
\* Number of Synchronize calls in the short runs (one batch at a time).
ShortSyncCalls == 1
\* Number of Track and Untrack calls the environment issues.
MaxTrackOps == 1
\* Number of faults (failed fetch, download or save, panic) injected in a run.
MaxFaults == 1

\* ------------------------------------------------------- program constants
\* make(chan AnimeJob, 100) / make(chan MangaJob, 100)
QueueCap == 100
\* make(chan struct{}, 1)
DoneCap == 1

\* The capacity given to both job queues in the runs that fill them.
FullQueueCap == 1

\* ------------------------------------------------------------- data model
\* A nil pointer (status, entry status).
Nil == "nil"

\* The media the user may track and untrack; the remote lists also hold
\* anime 2, tracked only in the runs that start with it.
AnimeIds == {1}
MangaIds == {3}

Workers == {"anime", "manga"}

DiffTypeNone == "UpToDate"
DiffTypeMissing == "Missing"
DiffTypeMetadata == "MetadataStale"

\* mo.None / mo.Some for the collections held by the Manager.
None == [present |-> FALSE, lists |-> <<>>]
Some(lists) == [present |-> TRUE, lists |-> lists]

NoDate == [present |-> FALSE, Year |-> 0, Month |-> 0, Day |-> 0]
Date(y, m, d) == [present |-> TRUE, Year |-> y, Month |-> m, Day |-> d]

CoverImage(u) == [ExtraLarge |-> u, Large |-> u, Medium |-> u, Color |-> u]

\* The media object embedded in a remote entry.
Media(id) ==
    [ID |-> id,
     BannerImage |-> <<"remote", id, "banner">>,
     CoverImage |-> CoverImage(<<"remote", id, "cover">>)]

\* A remote list entry.
Entry(eid, mid, status, progress, started) ==
    [ID |-> eid, Score |-> mid * 10, Progress |-> progress, Status |-> status,
     Notes |-> "n", Repeat |-> 0, Private |-> FALSE,
     StartedAt |-> started, CompletedAt |-> NoDate, Media |-> Media(mid)]

List(status, name, custom, entries) ==
    [Status |-> status, Name |-> name, IsCustomList |-> custom, Entries |-> entries]

\* Remote anime collections a Synchronize call may be given.
AnimeCollectionA ==
    << List("CURRENT", "Watching", FALSE,
            << Entry(11, 1, "CURRENT", 3, Date(2024, 1, 2)),
               Entry(12, 2, "CURRENT", 0, NoDate) >>),
       List(Nil, "Favorites", TRUE,
            << Entry(11, 1, "CURRENT", 3, Date(2024, 1, 2)) >>) >>

AnimeCollectionB ==
    << List(Nil, "Favorites", TRUE,
            << Entry(11, 1, "COMPLETED", 12, Date(2024, 1, 2)) >>),
       List("CURRENT", "Watching", FALSE,
            << Entry(12, 2, "CURRENT", 1, NoDate) >>),
       List("COMPLETED", "Completed", FALSE,
            << Entry(11, 1, "COMPLETED", 12, Date(2024, 1, 2)) >>) >>


\* Two lists of one status around a nil-status list.
AnimeCollectionF ==
    << List("CURRENT", "Watching", FALSE,
            << Entry(11, 1, "CURRENT", 3, Date(2024, 1, 2)) >>),
       List(Nil, "Favorites", TRUE,
            << Entry(12, 2, "CURRENT", 0, NoDate) >>),
       List("CURRENT", "Watching again", FALSE,
            << Entry(12, 2, "CURRENT", 0, NoDate),
               Entry(11, 1, "CURRENT", 3, Date(2024, 1, 2)) >>) >>

\* Remote manga collections a Synchronize call may be given.
MangaCollectionA ==
    << List("CURRENT", "Reading", FALSE,
            << Entry(13, 3, "CURRENT", 5, NoDate) >>) >>

MangaCollectionB ==
    << List(Nil, "Custom", TRUE, << Entry(13, 3, "PAUSED", 5, NoDate) >>),
       List("PAUSED", "Paused", FALSE, << Entry(13, 3, "PAUSED", 5, NoDate) >>) >>

\* Manga 3 has left the remote lists.
MangaCollectionC == << List("CURRENT", "Reading", FALSE, <<>>) >>


\* Local files: records {Path, MediaId}.
LocalFile(p, mid) == [Path |-> p, MediaId |-> mid]

LocalFilesA == {LocalFile("a1", 1), LocalFile("b1", 2)}
LocalFilesB == {LocalFile("a1", 1), LocalFile("a2", 1)}
LocalFilesC == {LocalFile("b1", 2)}

\* Downloaded chapter containers: records {MediaId, Provider, Chapters}.
ChapterContainer(mid, prov, chapters) ==
    [MediaId |-> mid, Provider |-> prov, Chapters |-> chapters]

ChapterContainersA == {ChapterContainer(3, "p", <<1>>)}
ChapterContainersD == {ChapterContainer(3, "p", <<1, 2>>)}
\* The only container of manga 3 has an empty chapter list.
ChapterContainersEmpty == {ChapterContainer(3, "p", <<>>)}

\* Episodes of an anime as the metadata provider knows them: episode key to
\* image URL ("" when the episode has no image).
EpisodesA == [k \in {"1", "2"} |-> IF k = "1" THEN "e1" ELSE ""]

EpisodesB ==
    [k \in {"1", "2", "3"} |-> IF k = "1" THEN "e1b" ELSE IF k = "2" THEN "e2" ELSE ""]

\* The metadata the provider holds, by anime.
ProviderMetadata(episodes) == [mid \in {1, 2} |-> [Episodes |-> episodes]]

\* The remote collections a Synchronize call may come without.
AbsentChoices == {{}, {"anime"}, {"manga"}}

\* A precondition check that looks at the anime collection only.
PreconditionFailsAnimeOnly(absent) == "anime" \in absent

\* The precondition of Synchronize fails: a remote collection is absent.
PreconditionFails(absent) == absent # {}

\* The inputs a Synchronize call may be given. A: every media has local
\* dependencies. B: the lists changed, anime 1 has other files, anime 2 and
\* manga 3 have no local dependency left. C: as A, but anime 1 has no file left
\* and manga 3 is no longer in the remote manga collection while its chapters
\* are still downloaded. D: as A, with one more chapter of manga 3 downloaded.
SyncInput(ra, rm, lf, cc, md) ==
    [anime |-> ra, manga |-> rm, localFiles |-> lf, chapterContainers |-> cc,
     metadata |-> md]

SyncInputs ==
    { SyncInput(AnimeCollectionA, MangaCollectionA, LocalFilesA, ChapterContainersA,
                ProviderMetadata(EpisodesA)),
      SyncInput(AnimeCollectionB, MangaCollectionB, LocalFilesB, {},
                ProviderMetadata(EpisodesB)),
      SyncInput(AnimeCollectionA, MangaCollectionC, LocalFilesC, ChapterContainersA,
                ProviderMetadata(EpisodesA)),
      SyncInput(AnimeCollectionA, MangaCollectionA, LocalFilesA, ChapterContainersD,
                ProviderMetadata(EpisodesA)) }

\* Inputs of a run in which the library is deleted behind the Syncer. A, and
\* E: as C, with the chapters of manga 3 deleted as well.
DeletedInputs ==
    { SyncInput(AnimeCollectionA, MangaCollectionA, LocalFilesA, ChapterContainersA,
                ProviderMetadata(EpisodesA)),
      SyncInput(AnimeCollectionA, MangaCollectionC, LocalFilesC, {},
                ProviderMetadata(EpisodesA)) }

\* The input of a run that fills the queues: A.
FullInputs ==
    { SyncInput(AnimeCollectionA, MangaCollectionA, LocalFilesA, ChapterContainersA,
                ProviderMetadata(EpisodesA)) }

\* The inputs of a run on remote lists that share a status: A with the anime
\* lists F, and B.
ListInputs ==
    { SyncInput(AnimeCollectionF, MangaCollectionA, LocalFilesA, ChapterContainersA,
                ProviderMetadata(EpisodesA)),
      SyncInput(AnimeCollectionB, MangaCollectionB, LocalFilesB, ChapterContainersA,
                ProviderMetadata(EpisodesB)) }

\* The input of a run on a manga whose chapter list came back empty: A with the
\* empty container.
EmptyInputs ==
    { SyncInput(AnimeCollectionA, MangaCollectionA, LocalFilesA, ChapterContainersEmpty,
                ProviderMetadata(EpisodesA)) }

\* The tracked sets the store may hold at start.
TrackedStores ==
    { [anime |-> AnimeIds, manga |-> MangaIds], [anime |-> {1}, manga |-> {}] }

\* Both anime of the remote lists tracked: one cycle has two anime diffs.
FullTrackedStores == { [anime |-> {1, 2}, manga |-> MangaIds] }

\* ------------------------------------------------------------ collections
RECURSIVE EntriesOf(_)
\* All entries of a collection, list after list.
EntriesOf(lists) ==
    IF lists = <<>> THEN <<>>
    ELSE Head(lists).Entries \o EntriesOf(Tail(lists))

\* The media IDs that appear in a collection.
MediaIdsOf(lists) ==
    LET es == EntriesOf(lists) IN {es[i].Media.ID : i \in 1..Len(es)}

\* The entry of a media in a collection (first occurrence).
GetListEntryFromMediaId(lists, mid) ==
    LET es == EntriesOf(lists)
        i == CHOOSE i \in 1..Len(es) :
                /\ es[i].Media.ID = mid
                /\ \A j \in 1..(i - 1) : es[j].Media.ID # mid
    IN es[i]

\* ------------------------------------------------------- snapshots, keys
\* Fingerprint of the local files of one media.
GetAnimeReferenceKey(mid, files) == {f.Path : f \in {g \in files : g.MediaId = mid}}

\* Fingerprint of the chapter containers of one media.
GetMangaReferenceKey(mid, containers) ==
    {<<c.Provider, c.Chapters>> : c \in {d \in containers : d.MediaId = mid}}

AnimeSnapshot(mid, key, metadata, episodeImagePaths) ==
    [MediaId |-> mid, AnimeMetadata |-> metadata,
     BannerImagePath |-> "banner.jpg", CoverImagePath |-> "cover.jpg",
     EpisodeImagePaths |-> episodeImagePaths, ReferenceKey |-> key]

\* The file an image downloaded from a URL is stored in.
ImagePath(url) == <<"file", url>>

\* currentEpisodeImageUrls: the episodes of the metadata that have an image.
CurrentEpisodeImageUrls(metadata) ==
    {k \in DOMAIN metadata.Episodes : metadata.Episodes[k] # ""}

\* Every episode image of the metadata is downloaded again.
EpisodeImageUrlsAll(metadata, paths) == CurrentEpisodeImageUrls(metadata)

\* episodeImageUrlsToDownload: the current episode images the snapshot lacks.
EpisodeImageUrlsToDownload(metadata, paths) ==
    {k \in CurrentEpisodeImageUrls(metadata) : k \notin DOMAIN paths}

\* The episode image paths after the images of keys were downloaded.
MergeEpisodeImagePaths(paths, metadata, keys) ==
    [k \in DOMAIN paths \cup keys |->
        IF k \in keys THEN ImagePath(metadata.Episodes[k]) ELSE paths[k]]

MangaSnapshot(mid, containers, key) ==
    [MediaId |-> mid, ChapterContainers |-> containers,
     BannerImagePath |-> "banner.jpg", CoverImagePath |-> "cover.jpg",
     ReferenceKey |-> key]

\* A snapshot store without the record of one media.
RemoveKey(store, mid) == [i \in DOMAIN store \ {mid} |-> store[i]]

\* A snapshot store with the record of one media written.
PutKey(store, mid, snap) ==
    [i \in DOMAIN store \cup {mid} |-> IF i = mid THEN snap ELSE store[i]]

\* URL under which the host serves an asset of a media.
FormatAssetUrl(mid, path) == <<"assets", mid, path>>

\* ----------------------------------------------- Local Collection Builder
\* A skeleton that forgets the name of the list.
ListSkeletonUnnamed(l) ==
    [Status |-> l.Status, Name |-> "", IsCustomList |-> l.IsCustomList,
     Entries |-> <<>>]

\* A list skeleton: status, name and custom flag, no entries.
ListSkeleton(l) ==
    [Status |-> l.Status, Name |-> l.Name, IsCustomList |-> l.IsCustomList,
     Entries |-> <<>>]

\* A skeleton for every remote list, the custom (nil status) ones included.
SkeletonsWithNil(lists) == [i \in 1..Len(lists) |-> ListSkeleton(lists[i])]

RECURSIVE Skeletons(_)
\* The skeletons of the remote lists whose status is not nil, in order.
Skeletons(lists) ==
    IF lists = <<>> THEN <<>>
    ELSE IF Head(lists).Status = Nil THEN Skeletons(Tail(lists))
    ELSE <<ListSkeleton(Head(lists))>> \o Skeletons(Tail(lists))

\* The local entry made from a remote entry and the media's snapshot.
LocalEntry(e, snap) ==
    [ID |-> e.ID, Score |-> e.Score, Progress |-> e.Progress, Status |-> e.Status,
     Notes |-> e.Notes, Repeat |-> e.Repeat, Private |-> e.Private,
     StartedAt |-> e.StartedAt, CompletedAt |-> e.CompletedAt,
     Media |-> [e.Media EXCEPT
                  !.BannerImage = FormatAssetUrl(snap.MediaId, snap.BannerImagePath),
                  !.CoverImage =
                      CoverImage(FormatAssetUrl(snap.MediaId, snap.CoverImagePath))]]

\* Append an entry to the last local list whose status is st.
AddToListLast(local, st, entry) ==
    LET idxs == {i \in 1..Len(local) : local[i].Status # Nil /\ local[i].Status = st}
    IN IF idxs = {} THEN local
       ELSE LET i == CHOOSE i \in idxs : \A j \in idxs : i >= j
            IN [local EXCEPT ![i].Entries = Append(@, entry)]

\* Append an entry to the first local list whose status is st.
AddToList(local, st, entry) ==
    LET idxs == {i \in 1..Len(local) : local[i].Status # Nil /\ local[i].Status = st}
    IN IF idxs = {} THEN local
       ELSE LET i == CHOOSE i \in idxs : \A j \in idxs : i <= j
            IN [local EXCEPT ![i].Entries = Append(@, entry)]

RECURSIVE AddEntries(_, _, _, _, _)
\* The entries of one remote list, tracked and with a snapshot, added in order.
AddEntries(local, st, entries, tracked, snaps) ==
    IF entries = <<>> THEN local
    ELSE LET e == Head(entries)
             mid == e.Media.ID
             next == IF mid \in tracked /\ mid \in DOMAIN snaps
                     THEN AddToList(local, st, LocalEntry(e, snaps[mid]))
                     ELSE local
         IN AddEntries(next, st, Tail(entries), tracked, snaps)

RECURSIVE FillLists(_, _, _, _)
\* The entry loop over the remote lists; lists with a nil status are skipped.
FillLists(local, lists, tracked, snaps) ==
    IF lists = <<>> THEN local
    ELSE LET l == Head(lists)
             next == IF l.Status = Nil THEN local
                     ELSE AddEntries(local, l.Status, l.Entries, tracked, snaps)
         IN FillLists(next, Tail(lists), tracked, snaps)

\* The media object of a remote entry after the Builder made a local entry from
\* it, had the Builder written the URLs into the remote object itself.
RemoteMediaShared(e, snap) == LocalEntry(e, snap).Media

\* The media object of a remote entry after the Builder made a local entry from
\* it: the URL rewrites go to the object the deep copy returned, the scalar
\* fields to new pointers, so the remote object keeps every field.
RemoteMediaAfterCopy(e, snap) == e.Media

\* The entries of a remote list after the entry loop went over them.
RemoteEntriesAfterPass(entries, tracked, snaps) ==
    [i \in 1..Len(entries) |->
        LET mid == entries[i].Media.ID
        IN IF mid \in tracked /\ mid \in DOMAIN snaps
           THEN [entries[i] EXCEPT !.Media = RemoteMediaAfterCopy(entries[i], snaps[mid])]
           ELSE entries[i]]

\* A remote collection after a Builder pass read it.
RemoteAfterPass(lists, tracked, snaps) ==
    IF DOMAIN snaps = {} THEN lists
    ELSE [i \in 1..Len(lists) |->
            IF lists[i].Status = Nil THEN lists[i]
            ELSE [lists[i] EXCEPT
                    !.Entries = RemoteEntriesAfterPass(@, tracked, snaps)]]

\* ----------------------------------------------------------------- state
VARIABLES
    \* Manager
    animeCollection,              \* remote anime collection (mo.Option)
    mangaCollection,              \* remote manga collection (mo.Option)
    localFiles,                   \* manager.localFiles
    downloadedChapterContainers,  \* manager.downloadedChapterContainers
    metadataProvider,             \* what manager.metadataProvider answers, by anime
    trackedStore,                 \* tracked-set store: [anime, manga] sets of ids
    animeSnapshots,               \* localDb anime snapshots, by media id
    mangaSnapshots,               \* localDb manga snapshots, by media id
    localAnimeCollection,         \* published local anime collection
    localMangaCollection,         \* published local manga collection
    dbLocalCollections,           \* local collections saved in localDb
    \* Syncer
    animeJobQueue,
    mangaJobQueue,
    failedAnimeQueue,             \* media ids of the failed anime entries
    failedMangaQueue,
    trackedAnimeMap,
    trackedMangaMap,
    mu,                           \* "free" or the name of the holder
    shouldUpdateLocalCollections,
    doneUpdatingLocalCollections, \* number of signals in the channel
    \* threads
    wpc,        \* worker position: idle, flag, sync, io, check, build, send
    wjob,       \* the job a worker holds
    bld,        \* collections a running Builder pass has composed
    spc,        \* Synchronize caller: idle, runDiffs
    sargs,      \* arguments the Manager passes to runDiffs
    enq,        \* enqueue goroutines: diffs still to be sent, per call
    syncCalls,  \* number of Synchronize calls issued
    \* history
    hist,
    \* App (core): the collections fetched from AniList
    account,             \* a.account is set
    anilistCollection,   \* a.anilistCollection: Nil or a collection
    rawAnimeCollection,  \* a.rawAnimeCollection
    appMangaCollection,  \* a.mangaCollection
    rawMangaCollection,  \* a.rawMangaCollection
    listCollections,     \* the MediaListCollection objects, by address: their Lists
    lastFetched,         \* the lists of the last successful fetch, by kind
    appRet,              \* what the last call on the App returned
    \* MediaInfoExtractor (videofile)
    mediaInfo,           \* the GetInfo call in flight: mi, goroutine, caller
    savedInfo,           \* the info.json files of the metadata cache, by sha
    infoCalls,           \* number of GetInfo calls issued
    \* image downloader
    registry,            \* url -> filename of the downloaded images
    downloadRet,         \* what the last DownloadImages call returned
    \* manga chapter containers
    fileCache,           \* fileCacher: key -> cached chapter container
    chapterRet           \* what the last GetMangaChapterContainer call did

vars == << animeCollection, mangaCollection, localFiles, downloadedChapterContainers,
           metadataProvider,
           trackedStore, animeSnapshots, mangaSnapshots, localAnimeCollection,
           localMangaCollection, dbLocalCollections, animeJobQueue, mangaJobQueue,
           failedAnimeQueue, failedMangaQueue, trackedAnimeMap, trackedMangaMap, mu,
           shouldUpdateLocalCollections, doneUpdatingLocalCollections,
           wpc, wjob, bld, spc, sargs, enq, syncCalls, hist,
           account, anilistCollection, rawAnimeCollection, appMangaCollection,
           rawMangaCollection, listCollections, lastFetched, appRet,
           mediaInfo, savedInfo, infoCalls, registry, downloadRet,
           fileCache, chapterRet >>

\* The state of the Syncer and its Manager.
syncVars == << animeCollection, mangaCollection, localFiles,
               downloadedChapterContainers, metadataProvider,
               trackedStore, animeSnapshots, mangaSnapshots, localAnimeCollection,
               localMangaCollection, dbLocalCollections, animeJobQueue, mangaJobQueue,
               failedAnimeQueue, failedMangaQueue, trackedAnimeMap, trackedMangaMap,
               mu, shouldUpdateLocalCollections, doneUpdatingLocalCollections,
               wpc, wjob, bld, spc, sargs, enq, syncCalls, hist >>

appVars == << account, anilistCollection, rawAnimeCollection, appMangaCollection,
              rawMangaCollection, listCollections, lastFetched, appRet >>

\* The state of the components the Syncer does not touch.
infoVars == << mediaInfo, savedInfo, infoCalls >>
imageVars == << registry, downloadRet >>
chapterVars == << fileCache, chapterRet >>
otherVars == << appVars, infoVars, imageVars, chapterVars >>

managerVars == << animeCollection, mangaCollection, localFiles,
                  downloadedChapterContainers, metadataProvider >>
storeVars == << trackedStore, animeSnapshots, mangaSnapshots >>
publishedVars == << localAnimeCollection, localMangaCollection, dbLocalCollections >>
queueVars == << animeJobQueue, mangaJobQueue >>
failedVars == << failedAnimeQueue, failedMangaQueue >>
trackedMapVars == << trackedAnimeMap, trackedMangaMap >>
callerVars == << spc, sargs, enq, syncCalls >>

NoJob == [present |-> FALSE]
NoSnapshot == [present |-> FALSE]
NoArgs == [present |-> FALSE]
NoBuild == [present |-> FALSE]
NoDiffs == [anime |-> {}, manga |-> {}]
\* A nil entry of a diff.
NoEntry == [present |-> FALSE]
\* A nil collection pointer of the App.
NoCollection == [MediaListCollection |-> 0]

\* The state after NewQueue: empty queues and caches, both workers started.
\* The environment will issue at most calls Synchronize calls, trackOps
\* Track/Untrack calls and faults faults, each Synchronize call with one of
\* inputs; the store starts as one of stores and the job queues hold cap jobs.
InitSyncer(inputs, stores, cap, calls, trackOps, faults, readFaults) ==
    /\ animeCollection = None
    /\ mangaCollection = None
    /\ localFiles = {}
    /\ downloadedChapterContainers = {}
    /\ metadataProvider = ProviderMetadata(EpisodesA)
    /\ trackedStore \in stores
    /\ animeSnapshots = <<>>
    /\ mangaSnapshots = <<>>
    /\ localAnimeCollection = None
    /\ localMangaCollection = None
    /\ dbLocalCollections = [anime |-> None, manga |-> None]
    /\ animeJobQueue = <<>>
    /\ mangaJobQueue = <<>>
    /\ failedAnimeQueue = {}
    /\ failedMangaQueue = {}
    /\ trackedAnimeMap = {}
    /\ trackedMangaMap = {}
    /\ mu = "free"
    /\ shouldUpdateLocalCollections = FALSE
    /\ doneUpdatingLocalCollections = 0
    /\ wpc = [w \in Workers |-> "idle"]
    /\ wjob = [w \in Workers |-> NoJob]
    /\ bld = [w \in Workers |-> NoBuild]
    /\ spc = "idle"
    /\ sargs = NoArgs
    /\ enq = [k \in 1..calls |-> NoDiffs]
    /\ syncCalls = 0
    /\ hist = [inputs |-> inputs, queueCap |-> cap,
               maxCalls |-> calls, maxTrackOps |-> trackOps, maxFaults |-> faults,
               readFaults |-> readFaults,
               notCovered |-> {}, builds |-> 0, batch |-> 0, clean |-> TRUE,
               panicked |-> {}, resumed |-> {}, skipped |-> FALSE,
               faults |-> 0, trackOps |-> 0, untracked |-> {},
               untrackedAtSync |-> {}, backToBack |-> FALSE, persisted |-> {},
               pass |-> NoBuild, published |-> NoBuild, repeated |-> FALSE,
               absent |-> {}, precondErr |-> FALSE,
               lastTracked |-> [anime |-> {}, manga |-> {}]]

\* The state of the App before any collection was fetched, with an account.
InitApp ==
    /\ anilistCollection = NoCollection
    /\ rawAnimeCollection = NoCollection
    /\ appMangaCollection = NoCollection
    /\ rawMangaCollection = NoCollection
    /\ listCollections = <<>>
    /\ lastFetched = [anime |-> <<>>, manga |-> <<>>]
    /\ appRet = [op |-> "none", bypassCache |-> FALSE, collection |-> NoCollection,
                 err |-> Nil]

\* A nil *MediaInfo, a missing info.json.
NoInfo == [present |-> FALSE]

\* The sha1 of the video files.
Shas == {"sha1", "sha2"}

\* No GetInfo call yet.
InitInfo ==
    /\ mediaInfo = [sha |-> "", mi |-> NoInfo, data |-> NoInfo, go |-> "none",
                    caller |-> "idle", waitsOn |-> Nil, closed |-> 0, err |-> Nil]
    /\ infoCalls = 0

\* No image downloaded yet.
InitImages ==
    /\ registry = <<>>
    /\ downloadRet = [op |-> "none", urls |-> {}, outcome |-> <<>>, before |-> {},
                     err |-> Nil]

\* An empty chapter container cache.
InitChapters ==
    /\ fileCache = <<>>
    /\ chapterRet = [op |-> "none", key |-> << >>, before |-> << >>,
                     searchRes |-> << >>, lookup |-> "ok", container |-> Nil,
                     err |-> Nil, contacted |-> FALSE]

\* The components the Syncer does not touch, before their first call.
InitOthers ==
    /\ account = TRUE /\ InitApp
    /\ savedInfo = [sha \in Shas |-> NoInfo] /\ InitInfo
    /\ InitImages
    /\ InitChapters

\* A run of the Syncer; the other components stay as they start.
InitOn(inputs, stores, cap, calls, trackOps, faults) ==
    InitSyncer(inputs, stores, cap, calls, trackOps, faults, FALSE) /\ InitOthers

InitWith(calls, trackOps, faults) ==
    InitOn(SyncInputs, TrackedStores, QueueCap, calls, trackOps, faults)

Init == InitWith(MaxSyncCalls, MaxTrackOps, MaxFaults)

\* A run of ShortSyncCalls calls on a tracked set nobody changes but the Syncer.
InitShort == InitWith(ShortSyncCalls, 0, MaxFaults)

\* A run of MaxSyncCalls calls during which the library is deleted.
InitDeleted ==
    InitOn(DeletedInputs, TrackedStores, QueueCap, MaxSyncCalls, 0, MaxFaults)

\* A run of ShortSyncCalls calls on remote lists that share a status, with
\* anime 2 tracked or not.
InitLists ==
    InitOn(ListInputs, TrackedStores \cup FullTrackedStores, QueueCap,
           ShortSyncCalls, 0, MaxFaults)

\* A run of ShortSyncCalls calls on a manga with an empty chapter list.
InitEmpty ==
    InitOn(EmptyInputs, TrackedStores, QueueCap, ShortSyncCalls, 0, MaxFaults)

\* A run of ShortSyncCalls calls whose cycles have more anime diffs than a queue
\* of FullQueueCap jobs holds.
InitFull ==
    InitOn(FullInputs, FullTrackedStores, FullQueueCap, ShortSyncCalls, 0, MaxFaults)

Queue(w) == IF w = "anime" THEN animeJobQueue ELSE mangaJobQueue

\* A worker is inside synchronizeAnime / synchronizeManga (or about to call it).
InJob(w) == wpc[w] \in {"flag", "sync", "io"}

\* Both queues are empty and neither worker is processing a job.
Quiescent ==
    /\ animeJobQueue = <<>>
    /\ mangaJobQueue = <<>>
    /\ \A w \in Workers : wpc[w] = "idle"

\* Quiescent, nothing left to enqueue and no Synchronize call in progress.
Drained ==
    /\ Quiescent
    /\ \A k \in DOMAIN enq : enq[k] = NoDiffs
    /\ spc = "idle"

\* ------------------------------------------------------------------ Differ
AnimeDiffType(mid, snaps, files) ==
    IF mid \notin DOMAIN snaps THEN DiffTypeMissing
    ELSE IF GetAnimeReferenceKey(mid, files) = snaps[mid].ReferenceKey THEN DiffTypeNone
    ELSE DiffTypeMetadata

MangaDiffType(mid, snaps, containers) ==
    IF mid \notin DOMAIN snaps THEN DiffTypeMissing
    ELSE IF GetMangaReferenceKey(mid, containers) = snaps[mid].ReferenceKey
         THEN DiffTypeNone
    ELSE DiffTypeMetadata

\* One diff per tracked anime that appears in the remote collection.
GetAnimeDiffs(lists, tracked, snaps, files) ==
    { [AnimeEntry |-> GetListEntryFromMediaId(lists, mid),
       DiffType |-> AnimeDiffType(mid, snaps, files),
       AnimeSnapshot |-> IF AnimeDiffType(mid, snaps, files) = DiffTypeMetadata
                         THEN [present |-> TRUE, snap |-> snaps[mid]]
                         ELSE NoSnapshot] : mid \in tracked \cap MediaIdsOf(lists) }

\* One diff per tracked manga that appears in the remote collection.
GetMangaDiffs(lists, tracked, snaps, containers) ==
    { [MangaEntry |-> GetListEntryFromMediaId(lists, mid),
       DiffType |-> MangaDiffType(mid, snaps, containers),
       MangaSnapshot |-> IF MangaDiffType(mid, snaps, containers) = DiffTypeMetadata
                         THEN [present |-> TRUE, snap |-> snaps[mid]]
                         ELSE NoSnapshot] : mid \in tracked \cap MediaIdsOf(lists) }

\* ----------------------------------------------------------------- Manager
\* Track(mediaId, kind): idempotent write to the tracked-set store. (The tracked
\* set before the first Synchronize call is the one Init chooses.)
Track ==
    /\ UNCHANGED otherVars
    /\ spc = "idle"
    /\ syncCalls >= 1
    /\ syncCalls < hist.maxCalls
    /\ hist.trackOps < hist.maxTrackOps
    /\ \E mid \in AnimeIds \cup MangaIds :
          /\ trackedStore' = IF mid \in AnimeIds
                             THEN [trackedStore EXCEPT !.anime = @ \cup {mid}]
                             ELSE [trackedStore EXCEPT !.manga = @ \cup {mid}]
          /\ hist' = [hist EXCEPT !.trackOps = @ + 1, !.untracked = @ \ {mid}]
    /\ trackedStore' # trackedStore
    /\ UNCHANGED << managerVars, animeSnapshots, mangaSnapshots, publishedVars,
                    queueVars, failedVars, trackedMapVars, mu,
                    shouldUpdateLocalCollections, doneUpdatingLocalCollections,
                    wpc, wjob, bld, callerVars >>

\* Untrack(mediaId, kind): idempotent write to the tracked-set store; the
\* snapshot goes with the prune of the next Synchronize.
Untrack ==
    /\ UNCHANGED otherVars
    /\ spc = "idle"
    /\ syncCalls >= 1
    /\ syncCalls < hist.maxCalls
    /\ hist.trackOps < hist.maxTrackOps
    /\ \E mid \in AnimeIds \cup MangaIds :
          /\ trackedStore' = IF mid \in AnimeIds
                             THEN [trackedStore EXCEPT !.anime = @ \ {mid}]
                             ELSE [trackedStore EXCEPT !.manga = @ \ {mid}]
          /\ hist' = [hist EXCEPT !.trackOps = @ + 1, !.untracked = @ \cup {mid}]
    /\ trackedStore' # trackedStore
    /\ UNCHANGED << managerVars, animeSnapshots, mangaSnapshots, publishedVars,
                    queueVars, failedVars, trackedMapVars, mu,
                    shouldUpdateLocalCollections, doneUpdatingLocalCollections,
                    wpc, wjob, bld, callerVars >>

\* The snapshots the prune of Synchronize keeps: tracked and still remote.
Pruned(store, tracked, lists) ==
    [i \in (DOMAIN store \cap tracked) \cap MediaIdsOf(lists) |-> store[i]]

\* Synchronize, up to the call of runDiffs: stores its inputs on the Manager,
\* reads the tracked set, prunes, reads the snapshots.
Synchronize ==
    /\ UNCHANGED otherVars
    /\ spc = "idle"
    /\ syncCalls < hist.maxCalls
    /\ \E in \in hist.inputs, absent \in AbsentChoices :
          IF PreconditionFails(absent)
          THEN /\ hist' = [hist EXCEPT !.absent = absent, !.precondErr = TRUE]
               /\ UNCHANGED << managerVars, animeSnapshots, mangaSnapshots,
                               sargs, spc, syncCalls >>
          ELSE /\ animeCollection' =
                     IF "anime" \in absent THEN None ELSE Some(in.anime)
               /\ mangaCollection' =
                     IF "manga" \in absent THEN None ELSE Some(in.manga)
               /\ localFiles' = in.localFiles
               /\ downloadedChapterContainers' = in.chapterContainers
               /\ metadataProvider' = in.metadata
               /\ animeSnapshots' =
                     Pruned(animeSnapshots, trackedStore.anime, in.anime)
               /\ mangaSnapshots' =
                     Pruned(mangaSnapshots, trackedStore.manga, in.manga)
               /\ sargs' = [present |-> TRUE,
                            trackedAnimeMap |-> trackedStore.anime,
                            trackedMangaMap |-> trackedStore.manga,
                            trackedAnimeSnapshotMap |-> animeSnapshots',
                            trackedMangaSnapshotMap |-> mangaSnapshots',
                            localFiles |-> in.localFiles,
                            downloadedChapterContainers |-> in.chapterContainers]
               /\ spc' = "runDiffs"
               /\ syncCalls' = syncCalls + 1
               /\ hist' = [hist EXCEPT
                     !.lastTracked = trackedStore,
                     !.skipped = FALSE,
                     !.untrackedAtSync = hist.untracked,
                     !.backToBack = syncCalls >= 1 /\ ~Drained,
                     !.absent = absent,
                     !.precondErr = FALSE]
    /\ UNCHANGED << trackedStore, publishedVars, queueVars, failedVars,
                    trackedMapVars, mu, shouldUpdateLocalCollections,
                    doneUpdatingLocalCollections, wpc, wjob, bld, enq >>

\* ------------------------------------------------------------------ Syncer
\* A lock that never excludes anybody.
CanLockAlways == TRUE

\* q.mu.Lock() succeeds.
CanLock == mu = "free"

\* A holder that returns without releasing the lock.
UnlockMissing(w) == w

\* The deferred q.mu.Unlock() of holder w.
Unlock(w) == "free"

\* A queue-length check that needs a job in each queue.
QueuesBothNotEmpty == Len(animeJobQueue) > 0 /\ Len(mangaJobQueue) > 0

\* The queue-length check of runDiffs.
QueuesNotEmpty == Len(animeJobQueue) > 0 \/ Len(mangaJobQueue) > 0

\* runDiffs, under the mutex: the absent and queue checks, the tracked maps,
\* the two diffs, and the start of the enqueue goroutine.
RunDiffs ==
    /\ UNCHANGED otherVars
    /\ spc = "runDiffs"
    /\ CanLock
    /\ spc' = "idle"
    /\ sargs' = NoArgs
    /\ IF ~animeCollection.present \/ ~mangaCollection.present \/ QueuesNotEmpty
       THEN /\ hist' = [hist EXCEPT !.skipped = TRUE]
            /\ UNCHANGED << trackedMapVars, enq >>
       ELSE LET ad == GetAnimeDiffs(animeCollection.lists, sargs.trackedAnimeMap,
                                    sargs.trackedAnimeSnapshotMap, sargs.localFiles)
                md == GetMangaDiffs(mangaCollection.lists, sargs.trackedMangaMap,
                                    sargs.trackedMangaSnapshotMap,
                                    sargs.downloadedChapterContainers)
            IN /\ trackedAnimeMap' = sargs.trackedAnimeMap
               /\ trackedMangaMap' = sargs.trackedMangaMap
               /\ enq' = [enq EXCEPT ![syncCalls] = [anime |-> ad, manga |-> md]]
               /\ hist' = [hist EXCEPT
                     !.builds = 0,
                     !.batch = Cardinality(ad) + Cardinality(md),
                     !.clean = /\ \A w \in Workers : wpc[w] = "idle"
                               /\ \A k \in DOMAIN enq : enq[k] = NoDiffs]
    /\ UNCHANGED << managerVars, storeVars, publishedVars, queueVars, failedVars, mu,
                    shouldUpdateLocalCollections, doneUpdatingLocalCollections,
                    wpc, wjob, bld, syncCalls >>

\* A send that never waits.
HasRoomAlways(q) == TRUE

\* A send on a buffered channel proceeds when the buffer has room.
HasRoom(q) == Len(q) < hist.queueCap

\* The enqueue goroutine sends one anime diff (map order: any).
EnqueueAnime ==
    /\ UNCHANGED otherVars
    /\ \E k \in DOMAIN enq : \E d \in enq[k].anime :
           /\ HasRoom(animeJobQueue)
           /\ animeJobQueue' = Append(animeJobQueue, [Diff |-> d])
           /\ enq' = [enq EXCEPT ![k].anime = @ \ {d}]
           /\ UNCHANGED << managerVars, storeVars, publishedVars, mangaJobQueue,
                           failedVars, trackedMapVars, mu, shouldUpdateLocalCollections,
                           doneUpdatingLocalCollections, wpc, wjob, bld, spc, sargs,
                           syncCalls, hist >>

\* The enqueue goroutine sends one manga diff, after all its anime diffs.
EnqueueManga ==
    /\ UNCHANGED otherVars
    /\ \E k \in DOMAIN enq : \E d \in enq[k].manga :
           /\ enq[k].anime = {}
           /\ HasRoom(mangaJobQueue)
           /\ mangaJobQueue' = Append(mangaJobQueue, [Diff |-> d])
           /\ enq' = [enq EXCEPT ![k].manga = @ \ {d}]
           /\ UNCHANGED << managerVars, storeVars, publishedVars, animeJobQueue,
                           failedVars, trackedMapVars, mu, shouldUpdateLocalCollections,
                           doneUpdatingLocalCollections, wpc, wjob, bld, spc, sargs,
                           syncCalls, hist >>

\* A receive that takes the job sent last.
ReceiveLast(q) == [job |-> q[Len(q)], rest |-> SubSeq(q, 1, Len(q) - 1)]

\* A receive on a buffered channel: the job sent first, and what stays behind.
Receive(q) == [job |-> Head(q), rest |-> Tail(q)]

\* for job := range queue: the worker receives the next job.
ReceiveJob(w) ==
    /\ UNCHANGED otherVars
    /\ wpc[w] = "idle"
    /\ Len(Queue(w)) > 0
    /\ wjob' = [wjob EXCEPT ![w] = [present |-> TRUE,
                                    Diff |-> Receive(Queue(w)).job.Diff,
                                    eContainers |-> {},
                                    episodeImageUrlsToDownload |-> {},
                                    imagesRequested |-> FALSE]]
    /\ IF w = "anime"
       THEN animeJobQueue' = Receive(animeJobQueue).rest /\ UNCHANGED mangaJobQueue
       ELSE mangaJobQueue' = Receive(mangaJobQueue).rest /\ UNCHANGED animeJobQueue
    /\ wpc' = [wpc EXCEPT ![w] = "flag"]
    /\ hist' = [hist EXCEPT !.notCovered = @ \cup {w},
                            !.resumed = @ \cup ({w} \cap hist.panicked)]
    /\ UNCHANGED << managerVars, storeVars, publishedVars, failedVars, trackedMapVars,
                    mu, shouldUpdateLocalCollections, doneUpdatingLocalCollections,
                    bld, callerVars >>

\* q.shouldUpdateLocalCollections = true (written without the mutex).
MarkShouldUpdate(w) ==
    /\ UNCHANGED otherVars
    /\ wpc[w] = "flag"
    /\ shouldUpdateLocalCollections' = TRUE
    /\ wpc' = [wpc EXCEPT ![w] = "sync"]
    /\ UNCHANGED << managerVars, storeVars, publishedVars, queueVars, failedVars,
                    trackedMapVars, mu, doneUpdatingLocalCollections, wjob, bld,
                    callerVars, hist >>


\* A worker goroutine that a panic has ended.
AfterPanicDead == "dead"

\* The worker's position after a panic inside synchronizeAnime/synchronizeManga:
\* the deferred handler recovers, the call returns to the worker loop.
AfterPanic == "check"

\* removeAnime: the tracked entry, the snapshot and the assets of a media.
RemoveAnime(mid) ==
    /\ animeSnapshots' = RemoveKey(animeSnapshots, mid)
    /\ trackedStore' = [trackedStore EXCEPT !.anime = @ \ {mid}]
    /\ UNCHANGED mangaSnapshots

\* removeManga: the tracked entry, the snapshot and the assets of a media.
RemoveManga(mid) ==
    /\ mangaSnapshots' = RemoveKey(mangaSnapshots, mid)
    /\ trackedStore' = [trackedStore EXCEPT !.manga = @ \ {mid}]
    /\ UNCHANGED animeSnapshots

FetchesMetadataAlways(diffType) == TRUE

\* The diff types for which synchronizeAnime fetches the metadata and goes on
\* to the snapshot branches; for any other it returns with nothing done.
FetchesMetadata(diffType) == diffType \in {DiffTypeMissing, DiffTypeMetadata}

\* synchronizeAnime, up to the first network call: the return on a nil
\* entry, the local-file lookup and the removal of an anime without local
\* files. (The Differ yields no diff without an entry; such a job is only met
\* where the initial state holds one.)
SynchronizeAnimeBegin ==
    /\ UNCHANGED otherVars
    /\ LET w == "anime"
           d == wjob[w].Diff
           mid == d.AnimeEntry.Media.ID
       IN /\ wpc[w] = "sync"
          /\ IF d.AnimeEntry = NoEntry
             THEN /\ UNCHANGED storeVars
                  /\ wpc' = [wpc EXCEPT ![w] = "check"]
             ELSE IF ~\E f \in localFiles : f.MediaId = mid
             THEN /\ RemoveAnime(mid)
                  /\ wpc' = [wpc EXCEPT ![w] = "check"]
             ELSE /\ UNCHANGED storeVars
                  /\ wpc' = [wpc EXCEPT ![w] =
                        IF FetchesMetadata(d.DiffType) THEN "io" ELSE "check"]
          /\ UNCHANGED << managerVars, publishedVars, queueVars, failedVars,
                          trackedMapVars, mu, shouldUpdateLocalCollections,
                          doneUpdatingLocalCollections, wjob, bld, callerVars, hist >>

\* The outcomes the environment may still inject.
Outcomes(all) == IF hist.faults < hist.maxFaults THEN all ELSE {"ok"}

Fault(o) == IF o = "ok" THEN 0 ELSE 1

AnimeOutcomes == {"ok", "metadataErr", "downloadErr", "saveErr", "panic"}

\* A job that goes on to the snapshot save although a download failed.
DownloadIgnored(o) == FALSE

\* The check of the download result (!ok): the job returns when a download failed.
DownloadAborts(o) == o = "downloadErr"

\* synchronizeAnime from the metadata fetch on: fetch, downloads, snapshot save;
\* every failure sends the entry to the failed queue.
SynchronizeAnimeIO ==
    /\ UNCHANGED otherVars
    /\ LET w == "anime"
           d == wjob[w].Diff
           mid == d.AnimeEntry.Media.ID
           key == GetAnimeReferenceKey(mid, localFiles)
           animeMetadata == metadataProvider[mid]
           prior == IF d.AnimeSnapshot.present
                    THEN d.AnimeSnapshot.snap.EpisodeImagePaths ELSE <<>>
           toDownload == IF d.DiffType = DiffTypeMissing
                         THEN CurrentEpisodeImageUrls(animeMetadata)
                         ELSE EpisodeImageUrlsToDownload(animeMetadata, prior)
       IN /\ wpc[w] = "io"
          /\ \E o \in Outcomes(AnimeOutcomes) :
               /\ CASE o = "panic" ->
                         /\ UNCHANGED << animeSnapshots, failedAnimeQueue >>
                    [] o = "metadataErr" ->
                         /\ failedAnimeQueue' = failedAnimeQueue \cup {mid}
                         /\ UNCHANGED animeSnapshots
                    [] DownloadAborts(o) \/ o = "saveErr" ->
                         /\ failedAnimeQueue' =
                               IF d.DiffType = DiffTypeMissing \/ d.AnimeSnapshot.present
                               THEN failedAnimeQueue \cup {mid} ELSE failedAnimeQueue
                         /\ UNCHANGED animeSnapshots
                    [] OTHER ->
                         /\ animeSnapshots' =
                               IF d.DiffType = DiffTypeMissing
                               THEN PutKey(animeSnapshots, mid,
                                           AnimeSnapshot(mid, key, animeMetadata,
                                               MergeEpisodeImagePaths(<<>>, animeMetadata,
                                                                      toDownload)))
                               ELSE IF d.AnimeSnapshot.present
                               THEN PutKey(animeSnapshots, d.AnimeSnapshot.snap.MediaId,
                                           [d.AnimeSnapshot.snap EXCEPT
                                               !.AnimeMetadata = animeMetadata,
                                               !.ReferenceKey = key,
                                               !.EpisodeImagePaths =
                                                   MergeEpisodeImagePaths(
                                                       @, animeMetadata, toDownload)])
                               ELSE animeSnapshots
                         /\ UNCHANGED failedAnimeQueue
               /\ wpc' = [wpc EXCEPT ![w] = IF o = "panic" THEN AfterPanic ELSE "check"]
               /\ hist' = [hist EXCEPT
                     !.panicked = IF o = "panic" THEN @ \cup {w} ELSE @ \ {w},
                     !.faults = @ + Fault(o),
                     !.persisted =
                         IF o = "ok" /\ (d.DiffType = DiffTypeMissing \/ d.AnimeSnapshot.present)
                         THEN @ \cup {mid} ELSE @ \ {mid}]
               /\ wjob' = [wjob EXCEPT ![w].episodeImageUrlsToDownload =
                     IF d.DiffType = DiffTypeMetadata /\ d.AnimeSnapshot.present
                        /\ o \notin {"metadataErr", "panic"}
                     THEN toDownload ELSE {}]
          /\ UNCHANGED << managerVars, trackedStore, mangaSnapshots, publishedVars,
                          queueVars, failedMangaQueue, trackedMapVars, mu,
                          shouldUpdateLocalCollections, doneUpdatingLocalCollections,
                          bld, callerVars >>

\* The returns of synchronizeManga without the test of the entry's status.
ReturnsEarlyUnlessNoStatus(entry) ==
    \/ entry = NoEntry
    \/ ~mangaCollection.present
    \/ entry.Media.ID \notin MediaIdsOf(mangaCollection.lists)

\* The returns of synchronizeManga before it looks at the chapter containers:
\* nil entry, remote manga collection absent, media not in the collection,
\* list entry without a status.
ReturnsEarly(entry) ==
    \/ entry = NoEntry
    \/ ~mangaCollection.present
    \/ entry.Media.ID \notin MediaIdsOf(mangaCollection.lists)
    \/ GetListEntryFromMediaId(mangaCollection.lists, entry.Media.ID).Status = Nil

\* synchronizeManga, up to the image download: the early returns, the lookup of
\* the media's chapter containers and the removal of a manga without any.
SynchronizeMangaBegin ==
    /\ UNCHANGED otherVars
    /\ LET w == "manga"
           d == wjob[w].Diff
           mid == d.MangaEntry.Media.ID
           eContainers == {c \in downloadedChapterContainers : c.MediaId = mid}
       IN /\ wpc[w] = "sync"
          /\ IF ReturnsEarly(d.MangaEntry)
             THEN /\ UNCHANGED << storeVars, wjob >>
                  /\ wpc' = [wpc EXCEPT ![w] = "check"]
             ELSE IF eContainers = {}
             THEN /\ RemoveManga(mid)
                  /\ UNCHANGED wjob
                  /\ wpc' = [wpc EXCEPT ![w] = "check"]
             ELSE /\ UNCHANGED storeVars
                  /\ wjob' = [wjob EXCEPT ![w].eContainers = eContainers]
                  /\ wpc' = [wpc EXCEPT ![w] =
                        IF \/ d.DiffType = DiffTypeMissing
                           \/ (d.DiffType = DiffTypeMetadata /\ d.MangaSnapshot.present)
                        THEN "io" ELSE "check"]
          /\ UNCHANGED << managerVars, publishedVars, queueVars, failedVars,
                          trackedMapVars, mu, shouldUpdateLocalCollections,
                          doneUpdatingLocalCollections, bld, callerVars, hist >>

MangaOutcomes == {"ok", "downloadErr", "saveErr", "panic"}

\* A manga job that asks for the images whatever its diff type.
MangaDownloadsAlways(diffType) == TRUE

\* synchronizeManga calls DownloadMangaImages in the Missing branch only.
MangaDownloads(diffType) == diffType = DiffTypeMissing

\* synchronizeManga from the image download on: downloads (Missing only) and
\* the snapshot save; every failure sends the entry to the failed queue.
SynchronizeMangaIO ==
    /\ UNCHANGED otherVars
    /\ LET w == "manga"
           d == wjob[w].Diff
           mid == d.MangaEntry.Media.ID
           ec == wjob[w].eContainers
           key == GetMangaReferenceKey(mid, ec)
       IN /\ wpc[w] = "io"
          /\ \E o \in Outcomes(MangaOutcomes) :
               /\ CASE o = "panic" ->
                         /\ UNCHANGED << mangaSnapshots, failedMangaQueue >>
                    [] DownloadAborts(o) /\ MangaDownloads(d.DiffType) ->
                         /\ failedMangaQueue' = failedMangaQueue \cup {mid}
                         /\ UNCHANGED mangaSnapshots
                    [] o = "saveErr" ->
                         /\ failedMangaQueue' = failedMangaQueue \cup {mid}
                         /\ UNCHANGED mangaSnapshots
                    [] OTHER ->
                         /\ mangaSnapshots' =
                               IF d.DiffType = DiffTypeMissing
                               THEN PutKey(mangaSnapshots, mid, MangaSnapshot(mid, ec, key))
                               ELSE PutKey(mangaSnapshots, d.MangaSnapshot.snap.MediaId,
                                           [d.MangaSnapshot.snap EXCEPT
                                               !.ChapterContainers = ec,
                                               !.ReferenceKey = key])
                         /\ UNCHANGED failedMangaQueue
               /\ wpc' = [wpc EXCEPT ![w] = IF o = "panic" THEN AfterPanic ELSE "check"]
               /\ hist' = [hist EXCEPT
                     !.panicked = IF o = "panic" THEN @ \cup {w} ELSE @ \ {w},
                     !.faults = @ + Fault(o),
                     !.persisted =
                         IF o = "ok" \/ (o = "downloadErr" /\ ~MangaDownloads(d.DiffType))
                         THEN @ \cup {mid} ELSE @ \ {mid}]
               /\ wjob' = [wjob EXCEPT ![w].imagesRequested =
                     o # "panic" /\ MangaDownloads(d.DiffType)]
          /\ UNCHANGED << managerVars, trackedStore, animeSnapshots, publishedVars,
                          queueVars, failedAnimeQueue, trackedMapVars, mu,
                          shouldUpdateLocalCollections, doneUpdatingLocalCollections,
                          bld, callerVars >>

\* A Builder that keeps the lists it published last time for the anime
\* collection and appends to them, instead of starting from new lists.
BuildCollectionInPlace(lists, tracked, snaps) ==
    LET start == IF localAnimeCollection.present /\ animeCollection.present
                     /\ lists = animeCollection.lists
                  THEN localAnimeCollection.lists
                  ELSE Skeletons(lists)
    IN IF DOMAIN snaps # {}
       THEN FillLists(start, lists, tracked, snaps)
       ELSE start

\* One local collection: skeletons, then entries when a snapshot exists.
BuildCollection(lists, tracked, snaps) ==
    IF DOMAIN snaps # {}
    THEN FillLists(Skeletons(lists), lists, tracked, snaps)
    ELSE Skeletons(lists)

\* What a Builder pass reads: the remote collections, the tracked maps and the
\* snapshots of the store.
BuilderInputs ==
    [present |-> TRUE,
     animeCollection |-> animeCollection, mangaCollection |-> mangaCollection,
     trackedAnimeMap |-> trackedAnimeMap, trackedMangaMap |-> trackedMangaMap,
     animeSnapshots |-> animeSnapshots, mangaSnapshots |-> mangaSnapshots]

\* The drain check of checkAndUpdateLocalCollections: flag set, both queues empty.
ShouldBuild ==
    /\ shouldUpdateLocalCollections
    /\ Len(animeJobQueue) = 0
    /\ Len(mangaJobQueue) = 0

\* The outcomes of the two snapshot reads of a Builder pass.
ReadOutcomes ==
    IF hist.readFaults THEN {"ok", "animeReadErr", "mangaReadErr"} ELSE {"ok"}

\* localDb.GetAnimeSnapshots / GetMangaSnapshots with the error dropped: a
\* failed read leaves a nil slice.
GetSnapshots(snaps, failed) == IF failed THEN << >> ELSE snaps

\* checkAndUpdateLocalCollections up to the snapshot reads of the Builder: takes
\* the mutex, runs the drain check and, when it passes, composes the two local
\* collections from the remote collections, the tracked maps and the snapshots.
CheckAndUpdateLocalCollections(w) ==
    /\ UNCHANGED otherVars
    /\ wpc[w] = "check"
    /\ CanLock
    /\ \E read \in ReadOutcomes :
        IF ShouldBuild
        THEN /\ mu' = w
             /\ wpc' = [wpc EXCEPT ![w] = "build"]
             /\ bld' = [bld EXCEPT ![w] =
                   IF animeCollection.present /\ mangaCollection.present
                   THEN [present |-> TRUE,
                         anime |-> BuildCollection(animeCollection.lists,
                                                   trackedAnimeMap,
                                                   GetSnapshots(animeSnapshots, read = "animeReadErr")),
                         manga |-> BuildCollection(mangaCollection.lists,
                                                   trackedMangaMap,
                                                   GetSnapshots(mangaSnapshots, read = "mangaReadErr")),
                         read |-> read]
                   ELSE NoBuild]
             /\ hist' = [hist EXCEPT
                   !.notCovered = {x \in Workers : InJob(x)},
                   !.builds = @ + 1,
                   !.pass = IF animeCollection.present /\ mangaCollection.present
                            THEN BuilderInputs ELSE NoBuild]
             /\ IF animeCollection.present /\ mangaCollection.present
                THEN /\ animeCollection' =
                           Some(RemoteAfterPass(animeCollection.lists, trackedAnimeMap,
                                                GetSnapshots(animeSnapshots, read = "animeReadErr")))
                     /\ mangaCollection' =
                           Some(RemoteAfterPass(mangaCollection.lists, trackedMangaMap,
                                                GetSnapshots(mangaSnapshots, read = "mangaReadErr")))
                ELSE UNCHANGED << animeCollection, mangaCollection >>
        ELSE /\ wpc' = [wpc EXCEPT ![w] = "idle"]
             /\ UNCHANGED << animeCollection, mangaCollection, mu, bld, hist >>
    /\ UNCHANGED << localFiles, downloadedChapterContainers, metadataProvider,
                    storeVars, publishedVars, queueVars, failedVars,
                    trackedMapVars, shouldUpdateLocalCollections,
                    doneUpdatingLocalCollections, wjob, callerVars >>

SaveOutcomes == {"ok", "animeSaveErr", "mangaSaveErr"}

\* The end of synchronizeCollections (save, then publish, anime before manga)
\* and the clearing of the flag that follows it.
SynchronizeCollectionsSave(w) ==
    /\ UNCHANGED otherVars
    /\ wpc[w] = "build"
    /\ \E o \in Outcomes(SaveOutcomes) :
          /\ IF ~bld[w].present \/ o = "animeSaveErr"
             THEN UNCHANGED publishedVars
             ELSE /\ localAnimeCollection' = Some(bld[w].anime)
                  /\ localMangaCollection' =
                        IF o = "ok" THEN Some(bld[w].manga) ELSE localMangaCollection
                  /\ dbLocalCollections' =
                        [anime |-> Some(bld[w].anime),
                         manga |-> IF o = "ok" THEN Some(bld[w].manga)
                                   ELSE dbLocalCollections.manga]
          /\ hist' = [hist EXCEPT
                !.faults = @ + Fault(o),
                !.pass = NoBuild,
                !.published = IF ~bld[w].present \/ o = "animeSaveErr" THEN @
                              ELSE IF o = "ok" THEN hist.pass ELSE NoBuild,
                !.repeated = @ \/ (bld[w].present /\ o = "ok"
                                     /\ hist.published = hist.pass)]
    /\ shouldUpdateLocalCollections' = FALSE
    /\ bld' = [bld EXCEPT ![w] = NoBuild]
    /\ wpc' = [wpc EXCEPT ![w] = "send"]
    /\ UNCHANGED << managerVars, storeVars, queueVars, failedVars, trackedMapVars,
                    mu, doneUpdatingLocalCollections, wjob, callerVars >>

\* q.doneUpdatingLocalCollections <- struct{}{} and the deferred Unlock.
SignalDone(w) ==
    /\ UNCHANGED otherVars
    /\ wpc[w] = "send"
    /\ doneUpdatingLocalCollections < DoneCap
    /\ doneUpdatingLocalCollections' = doneUpdatingLocalCollections + 1
    /\ mu' = Unlock(w)
    /\ wpc' = [wpc EXCEPT ![w] = "idle"]
    /\ UNCHANGED << managerVars, storeVars, publishedVars, queueVars, failedVars,
                    trackedMapVars, shouldUpdateLocalCollections, wjob, bld,
                    callerVars, hist >>

\* A reader of doneUpdatingLocalCollections takes one signal.
WaitForDrain ==
    /\ UNCHANGED otherVars
    /\ doneUpdatingLocalCollections > 0
    /\ doneUpdatingLocalCollections' = doneUpdatingLocalCollections - 1
    /\ UNCHANGED << managerVars, storeVars, publishedVars, queueVars, failedVars,
                    trackedMapVars, mu, shouldUpdateLocalCollections, wpc, wjob, bld,
                    callerVars, hist >>

Next ==
    \/ Track
    \/ Untrack
    \/ Synchronize
    \/ RunDiffs
    \/ EnqueueAnime
    \/ EnqueueManga
    \/ \E w \in Workers : ReceiveJob(w)
    \/ \E w \in Workers : MarkShouldUpdate(w)
    \/ SynchronizeAnimeBegin
    \/ SynchronizeAnimeIO
    \/ SynchronizeMangaBegin
    \/ SynchronizeMangaIO
    \/ \E w \in Workers : CheckAndUpdateLocalCollections(w)
    \/ \E w \in Workers : SynchronizeCollectionsSave(w)
    \/ \E w \in Workers : SignalDone(w)
    \/ WaitForDrain

Spec == Init /\ [][Next]_vars

\* The Syncer and one caller of Synchronize, without Track and Untrack.
NextShort ==
    \/ Synchronize
    \/ RunDiffs
    \/ EnqueueAnime
    \/ EnqueueManga
    \/ \E w \in Workers : ReceiveJob(w)
    \/ \E w \in Workers : MarkShouldUpdate(w)
    \/ SynchronizeAnimeBegin
    \/ SynchronizeAnimeIO
    \/ SynchronizeMangaBegin
    \/ SynchronizeMangaIO
    \/ \E w \in Workers : CheckAndUpdateLocalCollections(w)
    \/ \E w \in Workers : SynchronizeCollectionsSave(w)
    \/ \E w \in Workers : SignalDone(w)
    \/ WaitForDrain

SpecShort == InitShort /\ [][NextShort]_vars

\* The Syncer with one job in each queue, after the one Synchronize call of the
\* run: the job is any the Differ yields for the tracked media or one without
\* an entry, and the Manager holds any of the remote manga collections (none,
\* with the media, without it, with the media's entry without a status).
InitJobs ==
    /\ animeCollection = Some(AnimeCollectionA)
    /\ mangaCollection \in
          {None, Some(MangaCollectionA), Some(MangaCollectionC),
           Some(<< List("CURRENT", "Reading", FALSE,
                        << Entry(13, 3, Nil, 5, NoDate) >>) >>)}
    /\ localFiles \in {LocalFilesA, LocalFilesC}
    /\ downloadedChapterContainers \in {ChapterContainersA, {}}
    /\ metadataProvider = ProviderMetadata(EpisodesA)
    /\ trackedStore = [anime |-> {1}, manga |-> {3}]
    /\ animeSnapshots = <<>>
    /\ mangaSnapshots = <<>>
    /\ localAnimeCollection = None
    /\ localMangaCollection = None
    /\ dbLocalCollections = [anime |-> None, manga |-> None]
    /\ \E d \in GetAnimeDiffs(AnimeCollectionA, {1}, <<>>, LocalFilesA) \cup
                 {[AnimeEntry |-> NoEntry, DiffType |-> DiffTypeMissing,
                   AnimeSnapshot |-> NoSnapshot]} :
          animeJobQueue = << [Diff |-> d] >>
    /\ \E d \in GetMangaDiffs(MangaCollectionA, {3}, <<>>, ChapterContainersA) \cup
                 {[MangaEntry |-> NoEntry, DiffType |-> DiffTypeMissing,
                   MangaSnapshot |-> NoSnapshot]} :
          mangaJobQueue = << [Diff |-> d] >>
    /\ failedAnimeQueue = {}
    /\ failedMangaQueue = {}
    /\ trackedAnimeMap = {1}
    /\ trackedMangaMap = {3}
    /\ mu = "free"
    /\ shouldUpdateLocalCollections = FALSE
    /\ doneUpdatingLocalCollections = 0
    /\ wpc = [w \in Workers |-> "idle"]
    /\ wjob = [w \in Workers |-> NoJob]
    /\ bld = [w \in Workers |-> NoBuild]
    /\ spc = "idle"
    /\ sargs = NoArgs
    /\ enq = [k \in 1..ShortSyncCalls |-> NoDiffs]
    /\ syncCalls = ShortSyncCalls
    /\ hist = [inputs |-> SyncInputs, queueCap |-> QueueCap,
               maxCalls |-> ShortSyncCalls, maxTrackOps |-> 0, maxFaults |-> 0,
               readFaults |-> FALSE,
               notCovered |-> {}, builds |-> 0, batch |-> 2, clean |-> TRUE,
               panicked |-> {}, resumed |-> {}, skipped |-> FALSE,
               faults |-> 0, trackOps |-> 0, untracked |-> {},
               untrackedAtSync |-> {}, backToBack |-> FALSE, persisted |-> {},
               pass |-> NoBuild, published |-> NoBuild, repeated |-> FALSE,
               absent |-> {}, precondErr |-> FALSE,
               lastTracked |-> [anime |-> {1}, manga |-> {3}]]
    /\ InitOthers

\* The workers and the reader of the completion signal.
NextJobs ==
    \/ \E w \in Workers : ReceiveJob(w)
    \/ \E w \in Workers : MarkShouldUpdate(w)
    \/ SynchronizeAnimeBegin
    \/ SynchronizeAnimeIO
    \/ SynchronizeMangaBegin
    \/ SynchronizeMangaIO
    \/ \E w \in Workers : CheckAndUpdateLocalCollections(w)
    \/ \E w \in Workers : SynchronizeCollectionsSave(w)
    \/ \E w \in Workers : SignalDone(w)
    \/ WaitForDrain

SpecJobs == InitJobs /\ [][NextJobs]_vars

\* A run of ShortSyncCalls calls in which the snapshot reads of the Builder
\* may fail.
InitReadFaults ==
    InitSyncer(SyncInputs, TrackedStores, QueueCap, ShortSyncCalls, 0, 0, TRUE)
       /\ InitOthers

SpecReadFaults == InitReadFaults /\ [][NextShort]_vars

\* The Syncer as src/ runs it: nothing receives from
\* doneUpdatingLocalCollections.
NextNoReader ==
    \/ Synchronize
    \/ RunDiffs
    \/ EnqueueAnime
    \/ EnqueueManga
    \/ \E w \in Workers : ReceiveJob(w)
    \/ \E w \in Workers : MarkShouldUpdate(w)
    \/ SynchronizeAnimeBegin
    \/ SynchronizeAnimeIO
    \/ SynchronizeMangaBegin
    \/ SynchronizeMangaIO
    \/ \E w \in Workers : CheckAndUpdateLocalCollections(w)
    \/ \E w \in Workers : SynchronizeCollectionsSave(w)
    \/ \E w \in Workers : SignalDone(w)

SpecNoReader == InitShort /\ [][NextNoReader]_vars

SpecDeleted == InitDeleted /\ [][NextShort]_vars

SpecFull == InitFull /\ [][NextShort]_vars

SpecLists == InitLists /\ [][NextShort]_vars

SpecEmpty == InitEmpty /\ [][NextShort]_vars

\* --------------------------------------------------------------------- App
\* The collections the AniList client may answer with.
FetchedAnime == {AnimeCollectionA, AnimeCollectionB, AnimeCollectionF}
FetchedManga == {MangaCollectionA, MangaCollectionB, MangaCollectionC}

\* The address given to a newly allocated MediaListCollection object.
NewAddress(heap) ==
    CHOOSE a \in 1..(Cardinality(DOMAIN heap) + 1) :
        a \notin DOMAIN heap /\ \A b \in 1..(a - 1) : b \in DOMAIN heap

\* lo.Filter(lists, list.Status != nil): a new slice without the custom lists.
StatusLists(lists) ==
    LET HasStatus(l) == l.Status # Nil IN SelectSeq(lists, HasStatus)

\* The raw collection keeps pointing to the fetched MediaListCollection.
ListCollectionShared(fetched, copy) == fetched

\* listCollectionCopy := *collection.MediaListCollection, and the raw
\* collection pointing to the copy.
ListCollectionCopy(fetched, copy) == copy

\* The body of RefreshAnilistCollection / RefreshMangaCollection after a
\* successful query that answered with lists: the raw collection, the filtered
\* collection (the fetched object itself) and the heap they live in.
Refresh(lists, heap) ==
    LET fetched == NewAddress(heap)
        h1 == heap @@ (fetched :> lists)
        copy == NewAddress(h1)
        h2 == h1 @@ (copy :> h1[fetched])
        rawLists == ListCollectionCopy(fetched, copy)
        h3 == [h2 EXCEPT ![rawLists] = h2[fetched]]
        h4 == [h3 EXCEPT ![fetched] = StatusLists(h3[fetched])]
    IN [raw |-> [MediaListCollection |-> rawLists],
        collection |-> [MediaListCollection |-> fetched],
        heap |-> h4, lists |-> lists, ret |-> [MediaListCollection |-> fetched],
        err |-> Nil]

\* A call that does not reach the assignments of a refresh and returns
\* (nil, err) from it.
NoRefresh(collection, raw, err) ==
    [raw |-> raw, collection |-> collection, heap |-> listCollections,
     lists |-> <<>>, ret |-> NoCollection, err |-> err]

\* RefreshAnilistCollection / RefreshMangaCollection on the stored pair
\* (collection, raw) when the client answers fetch or its query failed.
AfterRefresh(collection, raw, fetch, failed) ==
    IF ~account THEN NoRefresh(collection, raw, Nil)
    ELSE IF failed THEN NoRefresh(collection, raw, "query failed")
    ELSE Refresh(fetch, listCollections)

\* The objects of heap reachable from the collections in roots.
Collect(heap, roots) ==
    [a \in {c.MediaListCollection : c \in roots \ {NoCollection}} |-> heap[a]]

\* The call op(bypassCache) on the collections of kind ends: r is what a
\* refresh left (or NoRefresh), ret and err what the call returns.
AppReturns(kind, op, bypassCache, r, ret, err) ==
    /\ IF kind = "anime"
       THEN /\ anilistCollection' = r.collection
            /\ rawAnimeCollection' = r.raw
            /\ UNCHANGED << appMangaCollection, rawMangaCollection >>
       ELSE /\ appMangaCollection' = r.collection
            /\ rawMangaCollection' = r.raw
            /\ UNCHANGED << anilistCollection, rawAnimeCollection >>
    /\ lastFetched' = IF r.lists = <<>> THEN lastFetched
                      ELSE [lastFetched EXCEPT ![kind] = r.lists]
    /\ appRet' = [op |-> op, bypassCache |-> bypassCache, collection |-> ret,
                  err |-> err]
    /\ listCollections' =
          Collect(r.heap, {anilistCollection', rawAnimeCollection',
                           appMangaCollection', rawMangaCollection', ret})
    /\ UNCHANGED << account, syncVars, infoVars, imageVars, chapterVars >>

RefreshAnilistCollection ==
    \E fetch \in FetchedAnime, failed \in BOOLEAN :
        LET r == AfterRefresh(anilistCollection, rawAnimeCollection, fetch, failed)
        IN /\ AppReturns("anime", "RefreshAnilistCollection", TRUE, r, r.ret, r.err)

GetAnilistCollection ==
    \E bypassCache \in BOOLEAN, fetch \in FetchedAnime, failed \in BOOLEAN :
        IF ~bypassCache /\ anilistCollection # NoCollection
        THEN AppReturns("anime", "GetAnilistCollection", bypassCache,
                        NoRefresh(anilistCollection, rawAnimeCollection, Nil),
                        anilistCollection, Nil)
        ELSE LET r == AfterRefresh(anilistCollection, rawAnimeCollection, fetch, failed)
             IN AppReturns("anime", "GetAnilistCollection", bypassCache, r,
                           r.ret, r.err)

GetRawAnilistCollection ==
    \E bypassCache \in BOOLEAN, fetch \in FetchedAnime, failed \in BOOLEAN :
        IF ~bypassCache /\ rawAnimeCollection # NoCollection
        THEN AppReturns("anime", "GetRawAnilistCollection", bypassCache,
                        NoRefresh(anilistCollection, rawAnimeCollection, Nil),
                        rawAnimeCollection, Nil)
        ELSE LET r == AfterRefresh(anilistCollection, rawAnimeCollection, fetch, failed)
             IN AppReturns("anime", "GetRawAnilistCollection", bypassCache, r,
                           IF r.err # Nil THEN NoCollection ELSE r.raw, r.err)

RefreshMangaCollection ==
    \E fetch \in FetchedManga, failed \in BOOLEAN :
        LET r == AfterRefresh(appMangaCollection, rawMangaCollection, fetch, failed)
        IN /\ AppReturns("manga", "RefreshMangaCollection", TRUE, r, r.ret, r.err)

GetMangaCollection ==
    \E bypassCache \in BOOLEAN, fetch \in FetchedManga, failed \in BOOLEAN :
        IF ~bypassCache /\ appMangaCollection # NoCollection
        THEN AppReturns("manga", "GetMangaCollection", bypassCache,
                        NoRefresh(appMangaCollection, rawMangaCollection, Nil),
                        appMangaCollection, Nil)
        ELSE LET r == AfterRefresh(appMangaCollection, rawMangaCollection, fetch, failed)
             IN AppReturns("manga", "GetMangaCollection", bypassCache, r,
                           r.ret, r.err)

\* The cache test reads a.mangaCollection and the hit returns it.
GetRawMangaCollection ==
    \E bypassCache \in BOOLEAN, fetch \in FetchedManga, failed \in BOOLEAN :
        IF ~bypassCache /\ appMangaCollection # NoCollection
        THEN AppReturns("manga", "GetRawMangaCollection", bypassCache,
                        NoRefresh(appMangaCollection, rawMangaCollection, Nil),
                        appMangaCollection, Nil)
        ELSE LET r == AfterRefresh(appMangaCollection, rawMangaCollection, fetch, failed)
             IN AppReturns("manga", "GetRawMangaCollection", bypassCache, r,
                           IF r.err # Nil THEN NoCollection ELSE r.raw, r.err)

\* The Syncer before its first call, left alone.
InitSyncerIdle == InitSyncer(FullInputs, FullTrackedStores, QueueCap, 0, 0, 0, FALSE)

\* The App with or without an account, before any collection was fetched.
InitAppCalls ==
    /\ InitSyncerIdle
    /\ account \in BOOLEAN /\ InitApp
    /\ savedInfo = [sha \in Shas |-> NoInfo] /\ InitInfo
    /\ InitImages
    /\ InitChapters

NextApp ==
    \/ RefreshAnilistCollection
    \/ GetAnilistCollection
    \/ GetRawAnilistCollection
    \/ RefreshMangaCollection
    \/ GetMangaCollection
    \/ GetRawMangaCollection

SpecApp == InitAppCalls /\ [][NextApp]_vars

\* --------------------------------------------------------------- MediaInfo
\* Number of GetInfo calls issued in a run.
MaxInfoCalls == 2

\* What getInfo extracts from the video file of sha.
Extracted(sha) == [present |-> TRUE, ready |-> Nil, Sha |-> sha, Duration |-> 24]

\* GetInfo up to the go statement: the channel is made, mi points to
\* MediaInfo{Sha, ready: readyChan}, the goroutine is started.
GetInfo ==
    /\ mediaInfo.caller \in {"idle", "returned"}
    /\ mediaInfo.go \in {"none", "done"}
    /\ infoCalls < MaxInfoCalls
    /\ \E sha \in Shas :
          mediaInfo' = [sha |-> sha,
                        mi |-> [present |-> TRUE, ready |-> "readyChan", Sha |-> sha,
                                Duration |-> 0],
                        data |-> NoInfo, go |-> "getSavedInfo", caller |-> "wait",
                        waitsOn |-> Nil, closed |-> 0, err |-> Nil]
    /\ infoCalls' = infoCalls + 1
    /\ UNCHANGED << savedInfo, syncVars, appVars, imageVars, chapterVars >>

\* goroutine: getSavedInfo; the saved file is unmarshalled into mi, whose
\* unexported ready field json leaves alone, the channel is closed and the
\* goroutine returns. Without a saved file it goes on to the extraction.
GoGetSavedInfo ==
    /\ mediaInfo.go = "getSavedInfo"
    /\ LET saved == savedInfo[mediaInfo.sha]
       IN mediaInfo' =
            IF saved.present
            THEN [mediaInfo EXCEPT !.mi.Sha = saved.Sha,
                                   !.mi.Duration = saved.Duration,
                                   !.closed = @ + 1, !.go = "done"]
            ELSE [mediaInfo EXCEPT !.go = "getInfo"]
    /\ UNCHANGED << savedInfo, infoCalls, syncVars, appVars, imageVars, chapterVars >>

\* goroutine: data, err = e.getInfo(); *mi = *data. A failed extraction
\* returns a nil data, and dereferencing it panics in the goroutine, which
\* ends the process.
GoGetInfo ==
    /\ mediaInfo.go = "getInfo"
    /\ \E ok \in BOOLEAN :
          mediaInfo' =
            IF ok
            THEN [mediaInfo EXCEPT !.data = Extracted(mediaInfo.sha),
                                   !.mi = Extracted(mediaInfo.sha),
                                   !.go = "setReady"]
            ELSE [mediaInfo EXCEPT !.err = "extraction failed", !.go = "panic"]
    /\ UNCHANGED << savedInfo, infoCalls, syncVars, appVars, imageVars, chapterVars >>

\* goroutine: mi.ready = readyChan; mi.Sha = e.sha; close(readyChan).
GoClose ==
    /\ mediaInfo.go = "setReady"
    /\ mediaInfo' = [mediaInfo EXCEPT !.mi.ready = "readyChan",
                                      !.mi.Sha = mediaInfo.sha,
                                      !.closed = @ + 1, !.go = "saveInfo"]
    /\ UNCHANGED << savedInfo, infoCalls, syncVars, appVars, imageVars, chapterVars >>

\* goroutine: saveInfo(savePath, mi).
GoSaveInfo ==
    /\ mediaInfo.go = "saveInfo"
    /\ savedInfo' = [savedInfo EXCEPT ![mediaInfo.sha] =
                        [present |-> TRUE, Sha |-> mediaInfo.mi.Sha,
                         Duration |-> mediaInfo.mi.Duration]]
    /\ mediaInfo' = [mediaInfo EXCEPT !.go = "done"]
    /\ UNCHANGED << infoCalls, syncVars, appVars, imageVars, chapterVars >>

\* caller: the operand of <-mi.ready is read, unsynchronised with the
\* goroutine's writes of *mi.
WaitReady ==
    /\ mediaInfo.caller = "wait"
    /\ mediaInfo.go # "panic"
    /\ mediaInfo' = [mediaInfo EXCEPT !.waitsOn = mediaInfo.mi.ready,
                                      !.caller = "receive"]
    /\ UNCHANGED << savedInfo, infoCalls, syncVars, appVars, imageVars, chapterVars >>

\* caller: the receive ends when the channel it waits on is closed, and
\* GetInfo returns. A receive from a nil channel never ends.
ReceiveReady ==
    /\ mediaInfo.caller = "receive"
    /\ mediaInfo.go # "panic"
    /\ mediaInfo.waitsOn = "readyChan"
    /\ mediaInfo.closed > 0
    /\ mediaInfo' = [mediaInfo EXCEPT !.caller = "returned"]
    /\ UNCHANGED << savedInfo, infoCalls, syncVars, appVars, imageVars, chapterVars >>

\* The metadata cache holds a saved info.json for any of the files.
InitInfoCalls ==
    /\ InitSyncerIdle
    /\ account = TRUE /\ InitApp
    /\ \E saved \in SUBSET Shas :
          savedInfo = [sha \in Shas |->
                         IF sha \in saved
                         THEN [present |-> TRUE, Sha |-> sha, Duration |-> 24]
                         ELSE NoInfo]
    /\ InitInfo
    /\ InitImages
    /\ InitChapters

NextInfo ==
    \/ GetInfo
    \/ GoGetSavedInfo
    \/ GoGetInfo
    \/ GoClose
    \/ GoSaveInfo
    \/ WaitReady
    \/ ReceiveReady

SpecInfo == InitInfoCalls /\ [][NextInfo]_vars

\* --------------------------------------------------------- image downloader
\* The URLs a batch is made of.
Urls == {"url1", "url2", "url3"}

\* The batch stops recording at the first URL that did not succeed.
RecordedIfAllOk(urls, outcome) ==
    IF \A u \in urls : outcome[u] = "ok" THEN urls ELSE {}

\* The URLs of a batch whose download is recorded: every one that succeeded,
\* whatever happened to the others.
Recorded(urls, outcome) == {u \in urls : outcome[u] = "ok"}

\* lookupByUrl: the filename recorded by a prior successful download.
GetImageFilenameByUrl(reg, url) ==
    IF url \in DOMAIN reg THEN [ok |-> TRUE, filename |-> reg[url]]
    ELSE [ok |-> FALSE, filename |-> ""]

\* DownloadImages(urls): every URL is downloaded, fails, or is cut short by the
\* cancel signal; the batch reports success only if every URL succeeded.
DownloadImages ==
    \E urls \in SUBSET Urls :
      \E outcome \in [urls -> {"ok", "failed", "cancelled"}] :
        LET recorded == Recorded(urls, outcome)
        IN /\ registry' = [u \in DOMAIN registry \cup recorded |->
                              IF u \in recorded THEN ImagePath(u)
                              ELSE registry[u]]
           /\ downloadRet' =
                 [op |-> "DownloadImages", urls |-> urls, outcome |-> outcome,
                  before |-> DOMAIN registry,
                  err |-> IF \A u \in urls : outcome[u] = "ok" THEN Nil
                          ELSE "download failed"]
           /\ UNCHANGED << syncVars, appVars, infoVars, chapterVars >>

\* Every component before its first call.
InitIdle == InitSyncerIdle /\ InitOthers

NextImages == DownloadImages

SpecImages == InitIdle /\ [][NextImages]_vars

\* -------------------------------------------------- manga chapter containers
\* The providers a container is asked from.
Providers == {"comick", "mangasee"}

\* The titles a call may pass; util.IsMostlyLatinString keeps the first two.
Titles == {"title", "romaji", "native"}
IsMostlyLatinString(title) == title \in {"title", "romaji"}

\* What a provider's Search finds for a title when it finds something.
SearchResults(title) ==
    IF title = "title" THEN << [ID |-> "a", SearchRating |-> 1] >>
    ELSE << [ID |-> "b", SearchRating |-> 2], [ID |-> "c", SearchRating |-> 2] >>

\* The results of the searches of a call, title by title in the order of
\* titles; a search that failed adds nothing.
RECURSIVE Search(_, _)
Search(titles, answer) ==
    IF titles = << >> THEN << >>
    ELSE (IF answer[Head(titles)] = "found" THEN SearchResults(Head(titles))
          ELSE << >>) \o Search(Tail(titles), answer)

\* bestRes: the first result with the highest SearchRating.
BestResult(searchRes) ==
    LET i == CHOOSE i \in DOMAIN searchRes :
                /\ \A j \in DOMAIN searchRes :
                      searchRes[j].SearchRating <= searchRes[i].SearchRating
                /\ \A j \in 1..(i - 1) :
                      searchRes[j].SearchRating < searchRes[i].SearchRating
    IN searchRes[i]

\* The chapters a provider's FindChapters returns for a search result.
ChapterList(id) == IF id = "a" THEN << 1 >> ELSE IF id = "b" THEN << >> ELSE << 1, 2 >>

\* A chapter lookup whose error is not looked at.
FindChaptersNeverFails(lookup) == FALSE

\* if err != nil after FindChapters.
FindChaptersFails(lookup) == lookup = "err"

\* GetMangaChapterContainer(provider, mediaId, titles), with what the provider
\* answers to each search and to the chapter lookup and whether the cache
\* write succeeds.
GetMangaChapterContainer ==
    \E provider \in Providers, titles \in {<< "title" >>, << "native" >>,
                                           << "native", "romaji", "title" >>},
       answer \in [Titles -> {"found", "none", "err"}],
       lookup \in {"ok", "err"}, setOk \in BOOLEAN :
      LET mediaId == 3
          key == << provider, mediaId >>
          latin == SelectSeq(titles, IsMostlyLatinString)
          searchRes == Search(latin, answer)
          chapterList == IF lookup = "err" THEN << >>
                         ELSE ChapterList(BestResult(searchRes).ID)
          container == ChapterContainer(mediaId, provider, chapterList)
          call == [op |-> "GetMangaChapterContainer", key |-> key,
                   before |-> fileCache, searchRes |-> searchRes,
                   lookup |-> lookup]
      IN /\ IF key \in DOMAIN fileCache
            THEN /\ chapterRet' = call @@ [container |-> fileCache[key], err |-> Nil,
                                           contacted |-> FALSE]
                 /\ UNCHANGED fileCache
            ELSE IF searchRes = << >>
            THEN /\ chapterRet' = call @@ [container |-> Nil, err |-> "ErrNoResults",
                                           contacted |-> latin # << >>]
                 /\ UNCHANGED fileCache
            ELSE IF FindChaptersFails(lookup)
            THEN /\ chapterRet' = call @@ [container |-> Nil, err |-> "ErrNoChapters",
                                           contacted |-> TRUE]
                 /\ UNCHANGED fileCache
            ELSE /\ chapterRet' = call @@ [container |-> container, err |-> Nil,
                                           contacted |-> TRUE]
                 /\ fileCache' = IF setOk THEN (key :> container) @@ fileCache
                                 ELSE fileCache
         /\ UNCHANGED << syncVars, appVars, infoVars, imageVars >>

NextChapters == GetMangaChapterContainer

SpecChapters == InitIdle /\ [][NextChapters]_vars

\* ------------------------------------------------------------------ Claims

\* C1: whenever both job queues are empty and neither worker is processing a
\* job, the most recent Builder pass began after every job dequeued before had
\* returned from synchronizeAnime/synchronizeManga: no job was still running
\* when that pass began.
C1_LastBuildAfterEveryJob == Quiescent => hist.notCovered = {}

\* A batch that started on an idle Syncer has been processed to the end.
BatchDone == Drained /\ hist.clean /\ hist.batch >= 1

\* C2: for one batch of jobs, the Builder runs exactly once, and that run
\* begins after the last job of the batch has finished.
C2_OneBuildPerBatch == BatchDone => (hist.builds = 1 /\ hist.notCovered = {})

\* The workers inside synchronizeCollections.
Building == {w \in Workers : wpc[w] = "build"}

\* C3: at most one execution of the Builder is in progress at any time.
C3_OneBuilderAtATime == Cardinality(Building) <= 1

\* One worker is inside the Builder while the other waits at the drain check
\* with the flag set and both queues empty.
C3_Witness ==
    /\ \E w \in Workers : \E x \in Workers \ {w} :
          wpc[w] = "build" /\ wpc[x] = "check"
    /\ ShouldBuild

\* The media has local files / downloaded chapter containers on the Manager.
HasLocalFiles(mid) == \E f \in localFiles : f.MediaId = mid
HasContainers(mid) == \E c \in downloadedChapterContainers : c.MediaId = mid

\* At least one Synchronize call has been issued and everything it started
\* (enqueue goroutine, jobs, Builder pass, signal) has run to the end.
SyncDrained == syncCalls >= 1 /\ Drained

\* C4: after Synchronize, once both queues have drained and the post-drain
\* Builder pass is done, every tracked media that is in the remote collection
\* and has inventory (local files / chapter containers) has a persisted
\* snapshot, unless it is in the failed cache.
C4_TrackedHaveSnapshots ==
    SyncDrained =>
        /\ \A mid \in (trackedStore.anime \cap hist.lastTracked.anime)
                        \cap MediaIdsOf(animeCollection.lists) :
              HasLocalFiles(mid) =>
                  mid \in DOMAIN animeSnapshots \/ mid \in failedAnimeQueue
        /\ \A mid \in (trackedStore.manga \cap hist.lastTracked.manga)
                        \cap MediaIdsOf(mangaCollection.lists) :
              HasContainers(mid) =>
                  mid \in DOMAIN mangaSnapshots \/ mid \in failedMangaQueue

\* C5: after Synchronize and drain, every persisted anime snapshot has a local
\* file among the local files given to that call, and every persisted manga
\* snapshot has a chapter container among the containers given to it.
C5_SnapshotsHaveInventory ==
    SyncDrained =>
        /\ \A mid \in DOMAIN animeSnapshots : HasLocalFiles(mid)
        /\ \A mid \in DOMAIN mangaSnapshots : HasContainers(mid)

\* The media of a published local collection.
PublishedMedia(c) == IF c.present THEN MediaIdsOf(c.lists) ELSE {}

\* Every published entry has a snapshot and is in the tracked set read by the
\* most recent Synchronize call.
PublishedConsistent ==
    /\ \A mid \in PublishedMedia(localAnimeCollection) :
          mid \in DOMAIN animeSnapshots /\ mid \in hist.lastTracked.anime
    /\ \A mid \in PublishedMedia(localMangaCollection) :
          mid \in DOMAIN mangaSnapshots /\ mid \in hist.lastTracked.manga

\* A step that ends a Builder pass.
BuilderPassEnds == \E w \in Workers : wpc[w] = "build" /\ wpc'[w] = "send"

\* C6: after every Builder pass, each entry of the published local collections
\* belongs to a media that has a persisted snapshot and is in the tracked set
\* read by the most recent Synchronize call (one that returned early included).
C6_PublishedAreTrackedWithSnapshot ==
    [][BuilderPassEnds => PublishedConsistent']_vars

\* Number of entries a collection holds for one media.
Occurrences(lists, mid) ==
    Cardinality({i \in 1..Len(EntriesOf(lists)) : EntriesOf(lists)[i].Media.ID = mid})

\* No list without a status, and no media twice.
WellFormedLocal(c) ==
    c.present =>
        /\ \A i \in 1..Len(c.lists) : c.lists[i].Status # Nil
        /\ \A mid \in MediaIdsOf(c.lists) : Occurrences(c.lists, mid) = 1

\* C7: no published local collection contains a list with a nil status, and
\* an entry that is in a nil-status list and in a status list of the remote
\* collection appears in the local collection once, in the status list.
C7_NoNilStatusList ==
    /\ WellFormedLocal(localAnimeCollection)
    /\ WellFormedLocal(localMangaCollection)
    /\ WellFormedLocal(dbLocalCollections.anime)
    /\ WellFormedLocal(dbLocalCollections.manga)

\* A remote collection with a custom list and a status list that share a
\* media has been built into a published local collection with that media.
C7_Witness ==
    /\ animeCollection.present /\ localAnimeCollection.present
    /\ \E i \in 1..Len(animeCollection.lists) :
          /\ animeCollection.lists[i].Status = Nil
          /\ 1 \in MediaIdsOf(<<animeCollection.lists[i]>>)
    /\ 1 \in PublishedMedia(localAnimeCollection)
    /\ Len(Skeletons(animeCollection.lists)) = Len(localAnimeCollection.lists)

\* The most recent Synchronize call was issued on a drained Syncer, was not
\* turned away at the queue check, and its cycle has run to the drain.
CycleDone == SyncDrained /\ ~hist.skipped /\ ~hist.backToBack

\* C8: after Untrack(id) followed by one Synchronize cycle run to the drain,
\* no list of the published local collections contains an entry for id.
C8_UntrackedLeavePublished ==
    CycleDone =>
        \A mid \in hist.untrackedAtSync :
            /\ mid \notin PublishedMedia(localAnimeCollection)
            /\ mid \notin PublishedMedia(localMangaCollection)

\* The snapshots one Synchronize call with the Manager's present inputs leaves
\* for a tracked set: one per tracked media in the remote collection that has
\* inventory, keyed by that inventory.
ExpectedAnimeSnapshots(tracked) ==
    [mid \in {m \in tracked \cap MediaIdsOf(animeCollection.lists) : HasLocalFiles(m)}
        |-> AnimeSnapshot(mid, GetAnimeReferenceKey(mid, localFiles),
                          IF mid \in DOMAIN animeSnapshots
                          THEN animeSnapshots[mid].AnimeMetadata
                          ELSE metadataProvider[mid],
                          IF mid \in DOMAIN animeSnapshots
                          THEN animeSnapshots[mid].EpisodeImagePaths ELSE <<>>)]

ExpectedMangaSnapshots(tracked) ==
    [mid \in {m \in tracked \cap MediaIdsOf(mangaCollection.lists) : HasContainers(m)}
        |-> LET ec == {c \in downloadedChapterContainers : c.MediaId = mid}
            IN MangaSnapshot(mid, ec, GetMangaReferenceKey(mid, ec))]

\* No fault was injected and the tracked set was changed by nobody but the Syncer.
Undisturbed == hist.faults = 0 /\ hist.trackOps = 0

\* A single Synchronize call, run to the drain, leaves the expected snapshots.
SingleCallEndState ==
    (SyncDrained /\ syncCalls = 1 /\ Undisturbed) =>
        /\ animeSnapshots = ExpectedAnimeSnapshots(hist.lastTracked.anime)
        /\ mangaSnapshots = ExpectedMangaSnapshots(hist.lastTracked.manga)

\* C9: two Synchronize calls issued back to back (the second before all jobs
\* of the first are processed) leave, after the drain, the end state of a
\* single call with the second call's inputs.
C9_BackToBackLikeSingleCall ==
    (SyncDrained /\ syncCalls = 2 /\ hist.backToBack /\ Undisturbed) =>
        /\ animeSnapshots = ExpectedAnimeSnapshots(hist.lastTracked.anime)
        /\ mangaSnapshots = ExpectedMangaSnapshots(hist.lastTracked.manga)
        /\ failedAnimeQueue = {} /\ failedMangaQueue = {}

\* A worker's job has just panicked.
Panics(w) == w \in hist'.panicked /\ w \notin hist.panicked

\* C10: when synchronizeAnime/synchronizeManga panics, the worker survives:
\* it goes on to the post-job drain check, and from there through the usual
\* loop to the next job.
C10_WorkerSurvivesPanic ==
    [][/\ \A w \in Workers : Panics(w) => wpc'[w] = "check"
       /\ \A w \in hist.panicked :
             wpc[w] \in {"check", "build", "send", "idle", "flag", "sync", "io"}
      ]_vars

\* A worker whose job panicked has received its next job.
C10_Witness == \E w \in Workers : w \in hist.resumed /\ wpc[w] = "flag"

\* C11: when the sync of a media failed in one cycle (its entry went to the
\* failed-entry cache) and a later cycle persisted its snapshot, the media is
\* no longer in the failed-entry cache after that later cycle.
C11_FailedEntryCleared ==
    (SyncDrained /\ ~hist.backToBack) =>
        \A mid \in hist.persisted :
            mid \notin failedAnimeQueue /\ mid \notin failedMangaQueue

BuilderPassStep ==
    \E w \in Workers : \/ (wpc[w] = "check" /\ wpc'[w] = "build")
                        \/ (wpc[w] = "build" /\ wpc'[w] = "send")

BlockedOnSignal(w) ==
    mu = w /\ wpc[w] = "send" /\ doneUpdatingLocalCollections >= DoneCap

\* C14: a Synchronize call always returns from runDiffs, whatever the workers
\* are doing: while the caller is inside runDiffs the Engine can always let it
\* return by its own steps, so the caller never waits for the mutex behind a
\* worker that is itself blocked.
C14_RunDiffsReturns ==
    spc = "runDiffs" => ~(\E w \in Workers : BlockedOnSignal(w))

\* Every job enqueued so far has been taken and has returned, and no step of
\* the Engine is left to take: each worker waits for a job or is blocked on
\* the send of the completion signal.
EngineAtRest ==
    /\ animeJobQueue = <<>>
    /\ mangaJobQueue = <<>>
    /\ \A k \in DOMAIN enq : enq[k] = NoDiffs
    /\ spc = "idle"
    /\ \A w \in Workers : wpc[w] = "idle" \/ BlockedOnSignal(w)

\* C15: when a Synchronize call has enqueued at least one job and every job
\* has returned, the Engine does not come to rest before a Builder pass that
\* began after the last job has completed and its completion signal has been
\* placed on doneUpdatingLocalCollections; in every cycle.
C15_EveryCycleSignals ==
    (EngineAtRest /\ hist.batch >= 1) =>
        /\ hist.notCovered = {}
        /\ \A w \in Workers : wpc[w] = "idle"

\* The runDiffs step of a Synchronize call runs to its return.
RunDiffsReturns == spc = "runDiffs" /\ spc' = "idle"

\* C16: a Synchronize call that finds at least one job in one of the queues
\* runs no diff, enqueues no job and leaves the tracked maps unchanged.
C16_BusyQueuesSkipDiffs ==
    [][(RunDiffsReturns /\ Len(animeJobQueue) + Len(mangaJobQueue) >= 1) =>
          /\ UNCHANGED << trackedMapVars, enq, queueVars >>
          /\ enq'[syncCalls] = NoDiffs
          /\ hist'.batch = hist.batch]_vars

\* A call returned from runDiffs at the queue check, jobs still queued.
C16_Witness ==
    /\ hist.skipped
    /\ spc = "idle"
    /\ Len(animeJobQueue) + Len(mangaJobQueue) >= 1
    /\ enq[syncCalls] = NoDiffs

\* A Synchronize call that came without a remote collection has returned.
AbsentCallReturns == spc = "idle" /\ hist'.absent # {} /\ hist'.absent # hist.absent

C18_NoJobForUpToDateDiff ==
    \A w \in Workers : \A i \in 1..Len(Queue(w)) :
        Queue(w)[i].Diff.DiffType # DiffTypeNone

\* The media of the job a worker holds.
JobMedia(w) ==
    IF w = "anime" THEN wjob[w].Diff.AnimeEntry.Media.ID
    ELSE wjob[w].Diff.MangaEntry.Media.ID

\* synchronizeAnime / synchronizeManga returns because the metadata fetch, an
\* image download or the snapshot save failed, and no snapshot was saved.
IOStepFailed(w) ==
    /\ wpc[w] = "io"
    /\ wpc'[w] = "check"
    /\ hist'.faults > hist.faults
    /\ w \notin hist'.panicked
    /\ JobMedia(w) \notin hist'.persisted

\* synchronizeManga returns because the media, which has chapter containers,
\* is not found in the remote manga collection.
LookupFailed(w) ==
    /\ w = "manga"
    /\ wpc[w] = "sync"
    /\ wpc'[w] = "check"
    /\ mangaCollection.present
    /\ JobMedia(w) \notin MediaIdsOf(mangaCollection.lists)
    /\ HasContainers(JobMedia(w))

\* C19: when synchronizeAnime or synchronizeManga ends the job of a media that
\* has inventory without saving a snapshot because a step failed (metadata
\* fetch, image download, snapshot save, lookup of the entry in the remote
\* collection), the media is in the failed cache when the call returns and the
\* job is not put back in a queue.
C19_FailedStepReachesFailedCache ==
    [][\A w \in Workers :
          (IOStepFailed(w) \/ LookupFailed(w)) =>
              /\ JobMedia(w) \in (IF w = "anime" THEN failedAnimeQueue'
                                   ELSE failedMangaQueue')
              /\ UNCHANGED queueVars]_vars

\* A job whose diff is Missing returns because the metadata fetch, an image
\* download or the snapshot save failed.
MissingJobFails(w) ==
    /\ wpc[w] = "io"
    /\ wpc'[w] = "check"
    /\ wjob[w].Diff.DiffType = DiffTypeMissing
    /\ hist'.faults > hist.faults
    /\ w \notin hist'.panicked

\* C20: for a Missing job, when the metadata fetch or an image download fails
\* the job writes no snapshot (it leaves the store as it was) and the entry
\* goes to the failed cache; a snapshot is written only once the metadata and
\* every image have been obtained.
C20_MissingJobAllOrNothing ==
    [][\A w \in Workers :
          MissingJobFails(w) =>
              /\ UNCHANGED storeVars
              /\ JobMedia(w) \in (IF w = "anime" THEN failedAnimeQueue'
                                   ELSE failedMangaQueue')]_vars

\* A Missing job has returned after a failure: no snapshot, a failed entry.
C20_Witness ==
    \E w \in Workers :
        /\ wpc[w] = "check"
        /\ wjob[w].present
        /\ wjob[w].Diff.DiffType = DiffTypeMissing
        /\ hist.faults >= 1
        /\ w \notin hist.panicked
        /\ JobMedia(w) \in (failedAnimeQueue \cup failedMangaQueue)
        /\ JobMedia(w) \notin (DOMAIN animeSnapshots \cup DOMAIN mangaSnapshots)

\* An anime job whose diff is MetadataStale saves its snapshot.
StaleAnimeJobSaves ==
    /\ wpc["anime"] = "io"
    /\ wpc'["anime"] = "check"
    /\ wjob["anime"].Diff.DiffType = DiffTypeMetadata
    /\ hist'.faults = hist.faults
    /\ JobMedia("anime") \in hist'.persisted

\* C21: an anime job of type MetadataStale that succeeds downloads only the
\* episode keys that have an image in the fresh metadata and no path in the
\* prior snapshot; the saved episodeImagePaths are the prior ones plus the
\* downloaded keys, every prior key keeps its path, and the banner and cover
\* paths are the prior ones.
C21_StaleAnimeMergesEpisodeImages ==
    [][StaleAnimeJobSaves =>
          LET prior == wjob["anime"].Diff.AnimeSnapshot.snap
              fresh == metadataProvider[JobMedia("anime")].Episodes
              saved == animeSnapshots'[JobMedia("anime")]
              got == wjob'["anime"].episodeImageUrlsToDownload
          IN /\ got = {k \in DOMAIN fresh :
                          fresh[k] # "" /\ k \notin DOMAIN prior.EpisodeImagePaths}
             /\ DOMAIN saved.EpisodeImagePaths =
                    DOMAIN prior.EpisodeImagePaths \cup got
             /\ \A k \in DOMAIN prior.EpisodeImagePaths :
                    saved.EpisodeImagePaths[k] = prior.EpisodeImagePaths[k]
             /\ \A k \in got : saved.EpisodeImagePaths[k] = <<"file", fresh[k]>>
             /\ saved.BannerImagePath = prior.BannerImagePath
             /\ saved.CoverImagePath = prior.CoverImagePath]_vars

\* A MetadataStale anime job has saved a snapshot that kept a prior episode
\* image whose URL changed and gained a new one.
C21_Witness ==
    /\ wpc["anime"] = "check"
    /\ wjob["anime"].present
    /\ wjob["anime"].Diff.DiffType = DiffTypeMetadata
    /\ wjob["anime"].episodeImageUrlsToDownload # {}
    /\ JobMedia("anime") \in hist.persisted
    /\ \E k \in DOMAIN wjob["anime"].Diff.AnimeSnapshot.snap.EpisodeImagePaths :
          /\ k \in DOMAIN metadataProvider[JobMedia("anime")].Episodes
          /\ wjob["anime"].Diff.AnimeSnapshot.snap.EpisodeImagePaths[k] #
                <<"file", metadataProvider[JobMedia("anime")].Episodes[k]>>

\* A manga job whose diff is MetadataStale, with its prior snapshot, gets past
\* the early returns and returns without a panic.
StaleMangaJobReturns ==
    /\ wpc["manga"] = "io"
    /\ wpc'["manga"] = "check"
    /\ wjob["manga"].Diff.DiffType = DiffTypeMetadata
    /\ wjob["manga"].Diff.MangaSnapshot.present
    /\ "manga" \notin hist'.panicked

\* C22: a manga job of type MetadataStale with a prior snapshot downloads no
\* image; the snapshot it saves keeps the prior media ID, banner path and cover
\* path, and has the current chapter containers of the media and the reference
\* key computed from them.
C22_StaleMangaKeepsImages ==
    [][StaleMangaJobReturns =>
          LET prior == wjob["manga"].Diff.MangaSnapshot.snap
              mid == JobMedia("manga")
              ec == wjob["manga"].eContainers
          IN /\ ~wjob'["manga"].imagesRequested
             /\ IF mid \in hist'.persisted
                THEN /\ prior.MediaId \in DOMAIN mangaSnapshots'
                     /\ mangaSnapshots'[prior.MediaId] =
                           [MediaId |-> prior.MediaId,
                            ChapterContainers |-> ec,
                            BannerImagePath |-> prior.BannerImagePath,
                            CoverImagePath |-> prior.CoverImagePath,
                            ReferenceKey |-> GetMangaReferenceKey(mid, ec)]
                ELSE UNCHANGED mangaSnapshots /\ mid \in failedMangaQueue']_vars

\* A MetadataStale manga job has saved a snapshot with other containers than
\* the prior one.
C22_Witness ==
    /\ wpc["manga"] = "check"
    /\ wjob["manga"].present
    /\ wjob["manga"].Diff.DiffType = DiffTypeMetadata
    /\ JobMedia("manga") \in hist.persisted
    /\ JobMedia("manga") \in DOMAIN mangaSnapshots
    /\ mangaSnapshots[JobMedia("manga")].ChapterContainers #
          wjob["manga"].Diff.MangaSnapshot.snap.ChapterContainers
    /\ mangaSnapshots[JobMedia("manga")].ChapterContainers # {}

\* The step in which worker w starts the job of a media that has no local
\* file (anime) or no downloaded chapter container (manga) left.
NoInventoryJobStep(w) ==
    /\ wpc[w] = "sync" /\ wpc'[w] # "sync"
    /\ IF w = "anime"
       THEN ~\E f \in localFiles : f.MediaId = JobMedia(w)
       ELSE ~\E c \in downloadedChapterContainers : c.MediaId = JobMedia(w)

\* C23: whatever the diff type, the job of an anime without local file or of a
\* manga without chapter container ends with the removal of that media (its
\* tracked entry and its snapshot are gone), goes to no metadata fetch and no
\* image download, and leaves the failed caches unchanged.
C23_NoInventoryJobRemoves ==
    [][\A w \in Workers :
          NoInventoryJobStep(w) =>
              /\ wpc'[w] = "check"
              /\ JobMedia(w) \notin trackedStore'[w]
              /\ JobMedia(w) \notin
                     DOMAIN (IF w = "anime" THEN animeSnapshots' ELSE mangaSnapshots')
              /\ UNCHANGED failedVars]_vars

\* The step in which worker w starts an UpToDate job of a media that still has
\* local files (anime) or downloaded chapter containers (manga).
UpToDateJobStep(w) ==
    /\ wpc[w] = "sync" /\ wpc'[w] # "sync"
    /\ wjob[w].Diff.DiffType = DiffTypeNone
    /\ IF w = "anime"
       THEN \E f \in localFiles : f.MediaId = JobMedia(w)
       ELSE \E c \in downloadedChapterContainers : c.MediaId = JobMedia(w)

\* C24: the job of an UpToDate diff for a media that still has inventory
\* leaves the persisted snapshots, the tracked entries and the failed caches
\* unchanged and returns with no metadata fetch and no image download.
C24_UpToDateJobChangesNothing ==
    [][\A w \in Workers :
          UpToDateJobStep(w) =>
              /\ wpc'[w] = "check"
              /\ UNCHANGED << storeVars, failedVars >>]_vars

\* An UpToDate job of a media with a snapshot and inventory has returned,
\* for the anime and for the manga.
C24_Witness ==
    \A w \in Workers :
        /\ wpc[w] = "check"
        /\ wjob[w].present
        /\ wjob[w].Diff.DiffType = DiffTypeNone
        /\ IF w = "anime"
           THEN /\ \E f \in localFiles : f.MediaId = JobMedia(w)
                /\ JobMedia(w) \in DOMAIN animeSnapshots
           ELSE /\ \E c \in downloadedChapterContainers : c.MediaId = JobMedia(w)
                /\ JobMedia(w) \in DOMAIN mangaSnapshots

\* C25: a worker holds the Syncer's mutex only inside
\* checkAndUpdateLocalCollections (the Builder pass and the signal), never
\* while it runs synchronizeAnime or synchronizeManga with their metadata fetch
\* and image downloads; so whenever runDiffs finds the mutex taken, its holder
\* is not in a job's network I/O.
C25_NoLockDuringJobIO ==
    \A w \in Workers :
        /\ wpc[w] \in {"flag", "sync", "io"} => mu # w
        /\ mu = w => wpc[w] \in {"build", "send"}

\* A Synchronize call is about to lock for runDiffs while the anime job is in
\* its network I/O: the mutex is free.
C25_Witness ==
    /\ wpc["anime"] = "io"
    /\ spc = "runDiffs"
    /\ mu = "free"

\* C26: each queue is served in the order of its sends, one job at a time.
\* A step that takes a job off the queue of worker w is taken by a worker that
\* has returned from the previous job's synchronize call and drain check, it
\* starts the job sent first and leaves the others in their order; a step that
\* adds a job puts it behind the waiting ones. (Nothing relates the two
\* queues.)
C26_JobsStartInQueueOrder ==
    [][\A w \in Workers :
          /\ Len(Queue(w)') < Len(Queue(w)) =>
                /\ wpc[w] = "idle" /\ wpc'[w] = "flag"
                /\ wjob'[w].present
                /\ wjob'[w].Diff = Queue(w)[1].Diff
                /\ Queue(w)' = SubSeq(Queue(w), 2, Len(Queue(w)))
          /\ Len(Queue(w)') > Len(Queue(w)) =>
                /\ Len(Queue(w)') = Len(Queue(w)) + 1
                /\ SubSeq(Queue(w)', 1, Len(Queue(w))) = Queue(w)
          /\ (/\ wjob'[w].present
              /\ wjob[w].present => wjob'[w].Diff # wjob[w].Diff) =>
                Len(Queue(w)') < Len(Queue(w))]_vars

\* The anime worker has started the first of two different jobs of its queue
\* while the second waits, and the manga worker is in a job of its own.
C26_Witness ==
    /\ wpc["anime"] = "sync"
    /\ Len(animeJobQueue) >= 1
    /\ animeJobQueue[1].Diff # wjob["anime"].Diff
    /\ wpc["manga"] \in {"sync", "io"}

\* The diffs of call k that its enqueue goroutine has still to send to the
\* queue of worker w.
PendingDiffs(k, w) == IF w = "anime" THEN enq[k].anime ELSE enq[k].manga

\* C27: a job queue never holds more jobs than its capacity, and jobs are
\* neither dropped nor duplicated on their way to the queue's one worker: a
\* diff leaves an enqueue goroutine only by being appended, once, to its queue
\* (the goroutine waits while the queue is full), and a job leaves a queue only
\* by becoming the current job of that queue's worker.
C27_BoundedQueuesLoseNoJob ==
    [][\A w \in Workers :
          /\ Len(Queue(w)) <= hist.queueCap
          /\ Len(Queue(w)') <= hist.queueCap
          /\ Len(Queue(w)') > Len(Queue(w)) =>
                \E k \in DOMAIN enq : \E d \in PendingDiffs(k, w) :
                    /\ Queue(w)' = Append(Queue(w), [Diff |-> d])
                    /\ PendingDiffs(k, w)' = PendingDiffs(k, w) \ {d}
                    /\ \A j \in DOMAIN enq \ {k} :
                          PendingDiffs(j, w)' = PendingDiffs(j, w)
          /\ \A k \in DOMAIN enq :
                (PendingDiffs(k, w) # {} /\ PendingDiffs(k, w)' # PendingDiffs(k, w)) =>
                    \E d \in PendingDiffs(k, w) :
                        /\ PendingDiffs(k, w)' = PendingDiffs(k, w) \ {d}
                        /\ Queue(w)' = Append(Queue(w), [Diff |-> d])
          /\ Len(Queue(w)') < Len(Queue(w)) =>
                /\ Queue(w) = << [Diff |-> wjob'[w].Diff] >> \o Queue(w)'
                /\ wpc[w] = "idle" /\ wpc'[w] = "flag"
                /\ \A x \in Workers \ {w} : wjob'[x] = wjob[x] /\ wpc'[x] = wpc[x]]_vars

\* One cycle has more anime diffs than the anime queue holds: the queue is
\* full and the enqueue goroutine of the only call so far has an anime diff
\* left to send.
C27_Witness ==
    /\ syncCalls = 1
    /\ Len(animeJobQueue) = hist.queueCap
    /\ enq[1].anime # {}

NotNilStatus(l) == l.Status # Nil

\* Status, name and isCustomList of each list, in order.
ListHeaders(lists) ==
    [i \in 1..Len(lists) |->
        [Status |-> lists[i].Status, Name |-> lists[i].Name,
         IsCustomList |-> lists[i].IsCustomList]]

\* C28: the lists of a local collection the Builder has built are exactly the
\* lists of the remote collection it read whose status is not nil, in the same
\* relative order, each with the same status, name and isCustomList.
C28_LocalListsAreStatusLists ==
    \A w \in Workers :
        (wpc[w] = "build" /\ bld[w].present) =>
            /\ ListHeaders(bld[w].anime) =
                  ListHeaders(SelectSeq(hist.pass.animeCollection.lists, NotNilStatus))
            /\ ListHeaders(bld[w].manga) =
                  ListHeaders(SelectSeq(hist.pass.mangaCollection.lists, NotNilStatus))

\* A pass has built from remote collections that start with a nil-status list
\* followed by status lists of different names.
C28_Witness ==
    \E w \in Workers :
        /\ wpc[w] = "build" /\ bld[w].present
        /\ hist.pass.animeCollection.lists = AnimeCollectionB
        /\ hist.pass.mangaCollection.lists = MangaCollectionB
        /\ Len(bld[w].anime) = 2

RECURSIVE ConcatEntries(_)
\* The entries of the given lists, list after list.
ConcatEntries(lists) ==
    IF lists = <<>> THEN <<>>
    ELSE Head(lists).Entries \o ConcatEntries(Tail(lists))

\* The remote entry e as a local entry: its own fields, and its media with the
\* banner and cover URLs of the snapshot's assets.
CarriedEntry(e, snap) ==
    [ID |-> e.ID, Score |-> e.Score, Progress |-> e.Progress, Status |-> e.Status,
     Notes |-> e.Notes, Repeat |-> e.Repeat, Private |-> e.Private,
     StartedAt |-> e.StartedAt, CompletedAt |-> e.CompletedAt,
     Media |-> [ID |-> e.Media.ID,
                BannerImage |-> FormatAssetUrl(snap.MediaId, snap.BannerImagePath),
                CoverImage |->
                    [ExtraLarge |-> FormatAssetUrl(snap.MediaId, snap.CoverImagePath),
                     Large |-> FormatAssetUrl(snap.MediaId, snap.CoverImagePath),
                     Medium |-> FormatAssetUrl(snap.MediaId, snap.CoverImagePath),
                     Color |-> FormatAssetUrl(snap.MediaId, snap.CoverImagePath)]]]

\* The entries the j-th local list must hold after a pass over remote, tracked
\* and snaps: when it is the first list of its status, one entry for each
\* occurrence, in the status lists of that status, of an entry whose media is
\* tracked and has a snapshot; none otherwise.
ExpectedEntries(remote, tracked, snaps, j) ==
    LET statusLists == SelectSeq(remote, NotNilStatus)
        st == statusLists[j].Status
        SameStatus(l) == l.Status = st
        Kept(e) == e.Media.ID \in tracked /\ e.Media.ID \in DOMAIN snaps
        occurrences == SelectSeq(ConcatEntries(SelectSeq(statusLists, SameStatus)), Kept)
    IN IF \A i \in 1..(j - 1) : statusLists[i].Status # st
       THEN [n \in 1..Len(occurrences) |->
                CarriedEntry(occurrences[n], snaps[occurrences[n].Media.ID])]
       ELSE <<>>

\* The lists of a built collection hold the expected entries.
EntriesAsExpected(local, remote, tracked, snaps) ==
    /\ Len(local) = Len(SelectSeq(remote, NotNilStatus))
    /\ \A j \in 1..Len(local) :
          local[j].Entries = ExpectedEntries(remote, tracked, snaps, j)

\* C29: in a built local collection, each occurrence of an entry in a remote
\* list with a status whose media is in the tracked map and has a snapshot is
\* one entry of the first local list with that status, in the order of the
\* remote lists, with the remote entry's id, score, progress, status, notes,
\* repeat, private and dates and a media whose banner and cover URLs are those
\* of the snapshot's assets; the local lists hold no other entry.
C29_EntriesFollowRemoteOccurrences ==
    \A w \in Workers :
        (wpc[w] = "build" /\ bld[w].present) =>
            /\ EntriesAsExpected(bld[w].anime, hist.pass.animeCollection.lists,
                                 hist.pass.trackedAnimeMap, hist.pass.animeSnapshots)
            /\ EntriesAsExpected(bld[w].manga, hist.pass.mangaCollection.lists,
                                 hist.pass.trackedMangaMap, hist.pass.mangaSnapshots)

\* A pass over two lists of one status: the first local list holds the tracked
\* and saved anime 1 twice, the second none, and anime 2, which is in both
\* remote lists, has no entry because it is untracked or without a snapshot.
C29_Witness ==
    \E w \in Workers :
        /\ wpc[w] = "build" /\ bld[w].present
        /\ hist.pass.animeCollection.lists = AnimeCollectionF
        /\ Len(bld[w].anime) = 2
        /\ Len(bld[w].anime[1].Entries) = 2
        /\ bld[w].anime[1].Entries[1].Media.ID = 1
        /\ bld[w].anime[1].Entries[2].Media.ID = 1
        /\ bld[w].anime[2].Entries = <<>>
        /\ Len(bld[w].manga[1].Entries) = 1

\* C30: the two local collections are replaced as a pair. The step that ends
\* a Builder pass, a failed save of either collection included, either leaves
\* the published local collections (in memory and in the store) as they were
\* or replaces both with the two collections this pass has built.
C30_CollectionsReplacedAsPair ==
    [][\A w \in Workers :
          (wpc[w] = "build" /\ wpc'[w] = "send" /\ bld[w].present) =>
              \/ UNCHANGED publishedVars
              \/ /\ localAnimeCollection' = Some(bld[w].anime)
                 /\ localMangaCollection' = Some(bld[w].manga)
                 /\ dbLocalCollections' =
                       [anime |-> Some(bld[w].anime), manga |-> Some(bld[w].manga)]]_vars

\* The manga worker returns from the snapshot branches of a job whose chapter
\* containers all have an empty chapter list.
EmptyChaptersJobReturns ==
    /\ wpc["manga"] = "io" /\ wpc'["manga"] = "check"
    /\ wjob["manga"].eContainers # {}
    /\ \A c \in wjob["manga"].eContainers : c.Chapters = <<>>

\* C31: the job of a tracked manga whose chapter containers all have an empty
\* chapter list persists no snapshot and puts the entry in the failed cache.
C31_EmptyChaptersGoToFailedCache ==
    [][EmptyChaptersJobReturns =>
          /\ UNCHANGED mangaSnapshots
          /\ JobMedia("manga") \in failedMangaQueue']_vars

\* The lists of a collection held by the App.
ListsOf(c) == listCollections[c.MediaListCollection]

\* C32: once a refresh has succeeded, the stored filtered collection holds
\* exactly the fetched lists with a status, in their order, and the stored raw
\* collection holds every fetched list, custom lists included, in their order.
C32_RefreshKeepsRawAndFiltered ==
    /\ lastFetched.anime # <<>> =>
          /\ ListsOf(anilistCollection) = SelectSeq(lastFetched.anime, NotNilStatus)
          /\ ListsOf(rawAnimeCollection) = lastFetched.anime
    /\ lastFetched.manga # <<>> =>
          /\ ListsOf(appMangaCollection) = SelectSeq(lastFetched.manga, NotNilStatus)
          /\ ListsOf(rawMangaCollection) = lastFetched.manga

\* Both kinds have been refreshed with collections that start with a custom
\* list, and a later call has returned.
C32_Witness ==
    /\ lastFetched.anime = AnimeCollectionB
    /\ lastFetched.manga = MangaCollectionB
    /\ appRet.op = "GetAnilistCollection" /\ ~appRet.bypassCache

\* C33: with an account set, a GetRawMangaCollection call that returns without
\* error returns a collection holding every list of the last fetched manga
\* collection, custom lists included, whatever bypassCache is.
C33_RawMangaKeepsCustomLists ==
    (/\ account
     /\ appRet.op = "GetRawMangaCollection"
     /\ appRet.err = Nil) =>
        /\ appRet.collection # NoCollection
        /\ ListsOf(appRet.collection) = lastFetched.manga

\* C34: in a GetInfo call the process does not crash, the caller waits on the
\* channel made for the call, the channel is closed at most once, and a call
\* whose goroutine has ended or whose caller has returned has closed it once:
\* on a cache hit, after an extraction and after a failed extraction alike.
C34_ReadyClosedOnceOnEveryPath ==
    /\ mediaInfo.go # "panic"
    /\ mediaInfo.caller = "receive" => mediaInfo.waitsOn = "readyChan"
    /\ mediaInfo.closed <= 1
    /\ (mediaInfo.caller = "returned" \/ mediaInfo.go = "done") =>
          mediaInfo.closed = 1

\* C35: when a DownloadImages call returns without error, a filename is found
\* for every URL of the batch. A URL of the batch that did not succeed makes
\* the call report an error and gets no filename recorded by the call (it is
\* found only if an earlier call recorded it), and does not keep the URLs that
\* succeeded from being recorded.
C35_BatchRecordsEverySuccess ==
    LET ret == downloadRet
        Found(u) == GetImageFilenameByUrl(registry, u).ok
    IN ret.op = "DownloadImages" =>
         /\ ret.err = Nil => \A u \in ret.urls : Found(u)
         /\ \A u \in ret.urls :
               /\ ret.outcome[u] = "ok" =>
                     GetImageFilenameByUrl(registry, u) =
                        [ok |-> TRUE, filename |-> << "file", u >>]
               /\ ret.outcome[u] # "ok" =>
                     /\ ret.err # Nil
                     /\ Found(u) <=> u \in ret.before

\* A batch of three URLs has returned an error with one URL failed, one
\* cancelled and one downloaded, after a batch that returned without error.
C35_Witness ==
    /\ downloadRet.op = "DownloadImages"
    /\ downloadRet.urls = Urls
    /\ downloadRet.err # Nil
    /\ downloadRet.outcome["url1"] = "failed"
    /\ downloadRet.outcome["url2"] = "cancelled"
    /\ downloadRet.outcome["url3"] = "ok"
    /\ downloadRet.before = {"url2"}
    /\ DOMAIN registry = {"url2", "url3"}

\* C36: a worker that ran a Builder pass is never left holding the mutex at
\* the send of the completion signal with the channel full: where nothing
\* receives from doneUpdatingLocalCollections no step can ever free such a
\* worker, so it would take no further job and no later Synchronize call
\* could lock the mutex.
C36_SendNeverBlocksWithMutex ==
    \A w \in Workers :
        (wpc[w] = "send" /\ mu = w) => doneUpdatingLocalCollections < DoneCap

\* A worker holds a job that has not returned yet.
JobInProgress(w) == wpc[w] \in {"flag", "sync", "io"}

\* C37: a Synchronize call hands its diffs to the enqueue goroutine only when
\* every job of every earlier call has been enqueued and has returned: no
\* diff of an earlier call is still to be sent, no job waits in a queue and no
\* worker holds a job. Jobs of two calls are never pending together.
C37_CallsNeverOverlap ==
    [][(RunDiffsReturns /\ enq'[syncCalls] # NoDiffs) =>
          /\ \A k \in DOMAIN enq : enq[k] = NoDiffs
          /\ animeJobQueue = <<>> /\ mangaJobQueue = <<>>
          /\ \A w \in Workers : ~JobInProgress(w)]_vars

\* A Builder pass one of whose snapshot reads failed ends, local collections
\* of an earlier pass being published.
FailedReadPassEnds(w) ==
    /\ wpc[w] = "build" /\ wpc'[w] = "send"
    /\ bld[w].present /\ bld[w].read # "ok"
    /\ localAnimeCollection.present /\ localMangaCollection.present

\* C38: a Builder pass that could not read the persisted snapshots replaces
\* neither the stored nor the published local collections: the ones of the
\* previous pass stay.
C38_FailedReadKeepsCollections ==
    [][\A w \in Workers :
          FailedReadPassEnds(w) =>
             UNCHANGED << localAnimeCollection, localMangaCollection,
                          dbLocalCollections >>]_vars

\* synchronizeAnime returns for a diff without an entry; synchronizeManga
\* returns for a diff without an entry, or when the remote manga collection
\* is absent, or does not hold the media, or holds it in an entry without a
\* status.
JobReturnsEarly(w) ==
    /\ wpc[w] = "sync" /\ wpc'[w] # "sync"
    /\ LET d == wjob[w].Diff
       IN IF w = "anime" THEN d.AnimeEntry = NoEntry
          ELSE \/ d.MangaEntry = NoEntry
               \/ ~mangaCollection.present
               \/ \A i \in DOMAIN mangaCollection.lists :
                     \A j \in DOMAIN mangaCollection.lists[i].Entries :
                        LET e == mangaCollection.lists[i].Entries[j]
                        IN e.Media.ID = d.MangaEntry.Media.ID => e.Status = Nil

====
